---------------------------- MODULE Spec2Model ----------------------------
(***************************************************************************)
(* The slab (ledger blob) layout decoder of the provenance CLI, modelled   *)
(* as a state machine: a byte buffer `data`, the last decoder call `call`  *)
(* and what that call produced, `ret`.                                     *)
(*                                                                         *)
(* A buffer is a length plus its nonzero bytes; every other byte below the *)
(* length is 0.  64-bit and wider integers are kept as their little-endian *)
(* byte tuples (they do not fit the checker's integers); 8/16/32-bit ones  *)
(* are numbers.  A call ends in one of three ways: it returns ("ok"), it   *)
(* throws one of the decoder's own errors, or a Buffer read past the end   *)
(* makes the runtime throw RangeError.  `reads` lists the byte ranges the  *)
(* call asked the buffer for, the failing one included.                    *)
(***************************************************************************)
EXTENDS Integers, Sequences, FiniteSets, TLC

VARIABLES data, call, ret

vars == <<data, call, ret>>

---------------------------------------------------------------------------
(* Bounds of the model *)

\* at most this many bitmap bits are set in a generated buffer
MaxSetBits == 2
\* generated lengths cut the account array at 0..MaxRecords whole records
MaxRecords == 2

---------------------------------------------------------------------------
(* Layout constants *)

\* 0x504552434f4c4154 ("PERCOLAT") as the 8 bytes readBigUInt64LE combines
MAGIC == <<84, 65, 76, 79, 67, 82, 69, 80>>
HEADER_LEN == 64
CONFIG_OFFSET == HEADER_LEN
RESERVED_OFF == 48
CONFIG_MIN_BYTES == 90

ENGINE_OFF == 208
ENGINE_VAULT_OFF == 0
ENGINE_INSURANCE_OFF == 16
ENGINE_PARAMS_OFF == 48
ENGINE_CURRENT_SLOT_OFF == 192
ENGINE_FUNDING_INDEX_OFF == 200
ENGINE_LAST_FUNDING_SLOT_OFF == 216
ENGINE_LOSS_ACCUM_OFF == 224
ENGINE_RISK_REDUCTION_ONLY_OFF == 240
ENGINE_RISK_REDUCTION_WITHDRAWN_OFF == 248
ENGINE_WARMUP_PAUSED_OFF == 264
ENGINE_WARMUP_PAUSE_SLOT_OFF == 272
ENGINE_LAST_CRANK_SLOT_OFF == 280
ENGINE_MAX_CRANK_STALENESS_OFF == 288
ENGINE_TOTAL_OI_OFF == 296
ENGINE_WARMED_POS_OFF == 312
ENGINE_WARMED_NEG_OFF == 328
ENGINE_WARMUP_INSURANCE_OFF == 344
ENGINE_BITMAP_OFF == 70032
ENGINE_NUM_USED_OFF == 70544
ENGINE_NEXT_ACCOUNT_ID_OFF == 70552
ENGINE_ACCOUNTS_OFF == 78768

BITMAP_WORDS == 64
WORD_BITS == 64
MAX_ACCOUNTS == 4096
ACCOUNT_SIZE == 272
PARAMS_SIZE == 144

PARAMS_WARMUP_PERIOD_OFF == 0
PARAMS_MAINTENANCE_MARGIN_OFF == 8
PARAMS_INITIAL_MARGIN_OFF == 16
PARAMS_TRADING_FEE_OFF == 24
PARAMS_MAX_ACCOUNTS_OFF == 32
PARAMS_NEW_ACCOUNT_FEE_OFF == 40
PARAMS_RISK_THRESHOLD_OFF == 56
PARAMS_MAINTENANCE_FEE_OFF == 72
PARAMS_MAX_CRANK_STALENESS_OFF == 88
PARAMS_LIQUIDATION_FEE_BPS_OFF == 96
PARAMS_LIQUIDATION_FEE_CAP_OFF == 104
PARAMS_LIQUIDATION_BUFFER_OFF == 120
PARAMS_MIN_LIQUIDATION_OFF == 128

ACCT_KIND_OFF == 0
ACCT_ACCOUNT_ID_OFF == 8
ACCT_CAPITAL_OFF == 16
ACCT_PNL_OFF == 32
ACCT_RESERVED_PNL_OFF == 48
ACCT_WARMUP_STARTED_OFF == 64
ACCT_WARMUP_SLOPE_OFF == 80
ACCT_POSITION_SIZE_OFF == 96
ACCT_ENTRY_PRICE_OFF == 112
ACCT_FUNDING_INDEX_OFF == 128
ACCT_MATCHER_PROGRAM_OFF == 144
ACCT_MATCHER_CONTEXT_OFF == 176
ACCT_OWNER_OFF == 208
ACCT_FEE_CREDITS_OFF == 240
ACCT_LAST_FEE_SLOT_OFF == 256

---------------------------------------------------------------------------
(* Buffers and the Buffer read primitives *)

Min(a, b) == IF a < b THEN a ELSE b

SetMin(S) == CHOOSE x \in S : \A y \in S : x <= y

\* the byte at `off` (callers stay below data.len)
ByteAt(d, off) == IF off \in DOMAIN d.nz THEN d.nz[off] ELSE 0

\* a read of n bytes at off stays inside the buffer
InBounds(d, off, n) == off >= 0 /\ off + n <= d.len

readUInt8(d, off) == ByteAt(d, off)

readUInt16LE(d, off) == ByteAt(d, off) + 256 * ByteAt(d, off + 1)

readUInt32LE(d, off) ==
    ByteAt(d, off) + 256 * ByteAt(d, off + 1)
        + 65536 * ByteAt(d, off + 2) + 16777216 * ByteAt(d, off + 3)

\* the u64 at off, as its bytes, least significant first
readBigUInt64LE(d, off) == [i \in 1..8 |-> ByteAt(d, off + i - 1)]

\* the i64 at off: same bytes, the top bit of byte 8 is the sign
readBigInt64LE(d, off) == [i \in 1..8 |-> ByteAt(d, off + i - 1)]

\* A BigInt wider than a word: base-256 limbs, least significant first, in two's
\* complement; neg tells that every limb above the last is 255 rather than 0.
\* Its value is the sum of lim[i] * 256^(i-1), minus 256^Len(lim) when neg.

\* the BigInt readBigUInt64LE returns
U64ToBig(bytes) == [lim |-> bytes, neg |-> FALSE]

\* the BigInt readBigInt64LE returns: negative when the top bit of byte 8 is set
I64ToBig(bytes) == [lim |-> bytes, neg |-> bytes[8] >= 128]

\* x << 64n
BigShl64(x) == [lim |-> [i \in 1..8 |-> 0] \o x.lim, neg |-> x.neg]

\* the bitwise or of two bytes
ByteOr(x, y) ==
    LET bit(k) == IF (x \div (2 ^ k)) % 2 = 1 \/ (y \div (2 ^ k)) % 2 = 1 THEN 2 ^ k ELSE 0
    IN  bit(0) + bit(1) + bit(2) + bit(3) + bit(4) + bit(5) + bit(6) + bit(7)

\* limb i of x, sign-extended past its last limb
LimbAt(x, i) == IF i <= Len(x.lim) THEN x.lim[i] ELSE IF x.neg THEN 255 ELSE 0

\* a | b on BigInts
BigOr(a, b) ==
    LET n == IF Len(a.lim) > Len(b.lim) THEN Len(a.lim) ELSE Len(b.lim)
    IN  [lim |-> [i \in 1..n |-> ByteOr(LimbAt(a, i), LimbAt(b, i))],
         neg |-> a.neg \/ b.neg]

\* readU128LE with the high word dropped: only the low word is read
readU128LELowOnly(d, off) == U64ToBig(readBigUInt64LE(d, off))

\* (hi << 64n) | lo, both words unsigned
readU128LE(d, off) ==
    LET lo == U64ToBig(readBigUInt64LE(d, off))
        hi == U64ToBig(readBigUInt64LE(d, off + 8))
    IN  BigOr(BigShl64(hi), lo)

\* (hi << 64n) | lo, the high word signed
readI128LE(d, off) ==
    LET lo == U64ToBig(readBigUInt64LE(d, off))
        hi == I64ToBig(readBigInt64LE(d, off + 8))
    IN  BigOr(BigShl64(hi), lo)

\* data.subarray(start, end): clamped to the buffer, never throws
subarray(d, start, end) ==
    LET s == Min(start, d.len)
        e == Min(end, d.len)
    IN  [i \in 1..(e - s) |-> ByteAt(d, s + i - 1)]

ZERO64 == [i \in 1..8 |-> 0]

\* (bits >> BigInt(bit)) & 1n, on the byte tuple of bits
BitOf(bits, bit) == (bits[(bit \div 8) + 1] \div (2 ^ (bit % 8))) % 2

---------------------------------------------------------------------------
(* Outcomes *)

Ok(v, rd) == [tag |-> "ok", val |-> v, reads |-> rd]

Throw(e, rd) == [tag |-> "throw", err |-> e, reads |-> rd]

RANGE_ERROR == "RangeError"

---------------------------------------------------------------------------
(* Reading a struct literal: fields are evaluated in source order and the *)
(* first read past the end throws RangeError.                             *)

F(name, type, off) == [name |-> name, type |-> type, off |-> off]

\* the Buffer reads one field makes, in order, as <<offset, bytes>>
FieldRanges(d, f) ==
    CASE f.type \in {"u8", "bool", "kind"} -> << <<f.off, 1>> >>
      [] f.type = "u16" -> << <<f.off, 2>> >>
      [] f.type = "u32" -> << <<f.off, 4>> >>
      [] f.type \in {"u64", "i64"} -> << <<f.off, 8>> >>
      [] f.type \in {"u128", "i128"} -> << <<f.off, 8>>, <<f.off + 8, 8>> >>
      [] f.type = "key" ->
            << <<Min(f.off, d.len), Min(f.off + 32, d.len) - Min(f.off, d.len)>> >>

FieldValue(d, f) ==
    CASE f.type = "u8" -> readUInt8(d, f.off)
      [] f.type = "bool" -> readUInt8(d, f.off) # 0
      [] f.type = "kind" -> IF readUInt8(d, f.off) = 1 THEN "LP" ELSE "User"
      [] f.type = "u16" -> readUInt16LE(d, f.off)
      [] f.type = "u32" -> readUInt32LE(d, f.off)
      [] f.type = "u64" -> readBigUInt64LE(d, f.off)
      [] f.type = "i64" -> readBigInt64LE(d, f.off)
      [] f.type = "u128" -> readU128LE(d, f.off)
      [] f.type = "i128" -> readI128LE(d, f.off)
      [] f.type = "key" -> subarray(d, f.off, f.off + 32)

\* all reads of all fields, flattened in evaluation order
RECURSIVE AllRanges(_, _, _)
AllRanges(d, fields, i) ==
    IF i > Len(fields) THEN <<>>
    ELSE FieldRanges(d, fields[i]) \o AllRanges(d, fields, i + 1)

ReadStruct(d, fields) ==
    LET rs == AllRanges(d, fields, 1)
        bad == {k \in 1..Len(rs) : ~InBounds(d, rs[k][1], rs[k][2])}
        stop == IF bad = {} THEN Len(rs) ELSE SetMin(bad)
        rd == {rs[k] : k \in 1..stop}
        names == {fields[i].name : i \in 1..Len(fields)}
    IN  IF bad # {} THEN Throw(RANGE_ERROR, rd)
        ELSE Ok([nm \in names |->
                    FieldValue(d, CHOOSE f \in {fields[i] : i \in 1..Len(fields)} :
                                        f.name = nm)], rd)

---------------------------------------------------------------------------
(* Decoder operations *)

HeaderFields ==
    << F("magic", "u64", 0), F("version", "u32", 8), F("bump", "u8", 12),
       F("admin", "key", 16), F("nonce", "u64", RESERVED_OFF),
       F("lastThrUpdateSlot", "u64", RESERVED_OFF + 8) >>

\* parseHeader comparing only the low 32 bits of the signature
parseHeaderLowWordMagic(d) ==
    IF d.len < HEADER_LEN THEN Throw("too short for header", {})
    ELSE IF SubSeq(readBigUInt64LE(d, 0), 1, 4) # SubSeq(MAGIC, 1, 4)
         THEN Throw("invalid magic", {<<0, 8>>})
    ELSE ReadStruct(d, HeaderFields)

parseHeader(d) ==
    IF d.len < HEADER_LEN THEN Throw("too short for header", {})
    ELSE IF readBigUInt64LE(d, 0) # MAGIC THEN Throw("invalid magic", {<<0, 8>>})
    ELSE ReadStruct(d, HeaderFields)


ConfigFields ==
    << F("collateralMint", "key", CONFIG_OFFSET),
       F("vaultPubkey", "key", CONFIG_OFFSET + 32),
       F("collateralOracle", "key", CONFIG_OFFSET + 64),
       F("indexOracle", "key", CONFIG_OFFSET + 96),
       F("maxStalenessSlots", "u64", CONFIG_OFFSET + 128),
       F("confFilterBps", "u16", CONFIG_OFFSET + 136),
       F("vaultAuthorityBump", "u8", CONFIG_OFFSET + 138) >>

ConfigMinLen == CONFIG_OFFSET + CONFIG_MIN_BYTES

parseConfig(d) ==
    IF d.len < ConfigMinLen THEN Throw("too short for config", {})
    ELSE ReadStruct(d, ConfigFields)

readNonce(d) ==
    IF d.len < RESERVED_OFF + 8 THEN Throw("too short for nonce", {})
    ELSE ReadStruct(d, << F("nonce", "u64", RESERVED_OFF) >>)

readLastThrUpdateSlot(d) ==
    IF d.len < RESERVED_OFF + 16 THEN Throw("too short for lastThrUpdateSlot", {})
    ELSE ReadStruct(d, << F("lastThrUpdateSlot", "u64", RESERVED_OFF + 8) >>)

ParamsBase == ENGINE_OFF + ENGINE_PARAMS_OFF

ParamsFields ==
    << F("warmupPeriodSlots", "u64", ParamsBase + PARAMS_WARMUP_PERIOD_OFF),
       F("maintenanceMarginBps", "u64", ParamsBase + PARAMS_MAINTENANCE_MARGIN_OFF),
       F("initialMarginBps", "u64", ParamsBase + PARAMS_INITIAL_MARGIN_OFF),
       F("tradingFeeBps", "u64", ParamsBase + PARAMS_TRADING_FEE_OFF),
       F("maxAccounts", "u64", ParamsBase + PARAMS_MAX_ACCOUNTS_OFF),
       F("newAccountFee", "u128", ParamsBase + PARAMS_NEW_ACCOUNT_FEE_OFF),
       F("riskReductionThreshold", "u128", ParamsBase + PARAMS_RISK_THRESHOLD_OFF),
       F("maintenanceFeePerSlot", "u128", ParamsBase + PARAMS_MAINTENANCE_FEE_OFF),
       F("maxCrankStalenessSlots", "u64", ParamsBase + PARAMS_MAX_CRANK_STALENESS_OFF),
       F("liquidationFeeBps", "u64", ParamsBase + PARAMS_LIQUIDATION_FEE_BPS_OFF),
       F("liquidationFeeCap", "u128", ParamsBase + PARAMS_LIQUIDATION_FEE_CAP_OFF),
       F("liquidationBufferBps", "u64", ParamsBase + PARAMS_LIQUIDATION_BUFFER_OFF),
       F("minLiquidationAbs", "u128", ParamsBase + PARAMS_MIN_LIQUIDATION_OFF) >>

parseParams(d) ==
    IF d.len < ParamsBase + PARAMS_SIZE THEN Throw("too short for RiskParams", {})
    ELSE ReadStruct(d, ParamsFields)

EngineFields ==
    << F("vault", "u128", ENGINE_OFF + ENGINE_VAULT_OFF),
       F("insuranceFund.balance", "u128", ENGINE_OFF + ENGINE_INSURANCE_OFF),
       F("insuranceFund.feeRevenue", "u128", ENGINE_OFF + ENGINE_INSURANCE_OFF + 16),
       F("currentSlot", "u64", ENGINE_OFF + ENGINE_CURRENT_SLOT_OFF),
       F("fundingIndexQpbE6", "i128", ENGINE_OFF + ENGINE_FUNDING_INDEX_OFF),
       F("lastFundingSlot", "u64", ENGINE_OFF + ENGINE_LAST_FUNDING_SLOT_OFF),
       F("lossAccum", "u128", ENGINE_OFF + ENGINE_LOSS_ACCUM_OFF),
       F("riskReductionOnly", "bool", ENGINE_OFF + ENGINE_RISK_REDUCTION_ONLY_OFF),
       F("riskReductionModeWithdrawn", "u128",
         ENGINE_OFF + ENGINE_RISK_REDUCTION_WITHDRAWN_OFF),
       F("warmupPaused", "bool", ENGINE_OFF + ENGINE_WARMUP_PAUSED_OFF),
       F("warmupPauseSlot", "u64", ENGINE_OFF + ENGINE_WARMUP_PAUSE_SLOT_OFF),
       F("lastCrankSlot", "u64", ENGINE_OFF + ENGINE_LAST_CRANK_SLOT_OFF),
       F("maxCrankStalenessSlots", "u64", ENGINE_OFF + ENGINE_MAX_CRANK_STALENESS_OFF),
       F("totalOpenInterest", "u128", ENGINE_OFF + ENGINE_TOTAL_OI_OFF),
       F("warmedPosTotal", "u128", ENGINE_OFF + ENGINE_WARMED_POS_OFF),
       F("warmedNegTotal", "u128", ENGINE_OFF + ENGINE_WARMED_NEG_OFF),
       F("warmupInsuranceReserved", "u128", ENGINE_OFF + ENGINE_WARMUP_INSURANCE_OFF),
       F("numUsedAccounts", "u16", ENGINE_OFF + ENGINE_NUM_USED_OFF),
       F("nextAccountId", "u64", ENGINE_OFF + ENGINE_NEXT_ACCOUNT_ID_OFF) >>

parseEngine(d) ==
    IF d.len < ENGINE_OFF + ENGINE_ACCOUNTS_OFF THEN Throw("too short for RiskEngine", {})
    ELSE ReadStruct(d, EngineFields)

BitmapBase == ENGINE_OFF + ENGINE_BITMAP_OFF

\* the inner loop stopping one bit early (bit < 63)
ScanBitsStopsEarly(bits, word) ==
    LET hits == SelectSeq([k \in 1..(WORD_BITS - 1) |-> k - 1],
                          LAMBDA bit : BitOf(bits, bit) = 1)
    IN  [k \in 1..Len(hits) |-> word * 64 + hits[k]]

\* the inner loop, for (bit = 0; bit < 64; bit++): the indices it pushes for one
\* word, in the order it pushes them
ScanBits(bits, word) ==
    LET hits == SelectSeq([k \in 1..WORD_BITS |-> k - 1],
                          LAMBDA bit : BitOf(bits, bit) = 1)
    IN  [k \in 1..Len(hits) |-> word * 64 + hits[k]]

\* the outer loop, for (word = 0; word < BITMAP_WORDS; word++): an all-zero word
\* is skipped, any other word pushes its indices after those of the words before
RECURSIVE ScanWords(_, _)
ScanWords(d, word) ==
    IF word >= BITMAP_WORDS THEN <<>>
    ELSE LET bits == readBigUInt64LE(d, BitmapBase + word * 8)
         IN  (IF bits = ZERO64 THEN <<>> ELSE ScanBits(bits, word))
                 \o ScanWords(d, word + 1)

parseUsedIndices(d) ==
    IF d.len < BitmapBase + BITMAP_WORDS * 8 THEN Throw("too short for bitmap", {})
    ELSE Ok(ScanWords(d, 0),
            {<<BitmapBase + w * 8, 8>> : w \in 0..(BITMAP_WORDS - 1)})

\* isAccountUsed taking the bit number modulo 8 instead of 64
isAccountUsedBitMod8(d, idx) ==
    IF idx < 0 \/ idx >= MAX_ACCOUNTS THEN Ok(FALSE, {})
    ELSE LET word == idx \div 64
             bit == idx % 8
             off == BitmapBase + word * 8
         IN  IF ~InBounds(d, off, 8) THEN Throw(RANGE_ERROR, {<<off, 8>>})
             ELSE Ok(BitOf(readBigUInt64LE(d, off), bit) # 0, {<<off, 8>>})

isAccountUsed(d, idx) ==
    IF idx < 0 \/ idx >= MAX_ACCOUNTS THEN Ok(FALSE, {})
    ELSE LET word == idx \div 64
             bit == idx % 64
             off == BitmapBase + word * 8
         IN  IF ~InBounds(d, off, 8) THEN Throw(RANGE_ERROR, {<<off, 8>>})
             ELSE Ok(BitOf(readBigUInt64LE(d, off), bit) # 0, {<<off, 8>>})

\* maxAccountIndex rounding up: a partial trailing record counts
maxAccountIndexCeil(dataLen) ==
    LET accountsEnd == dataLen - ENGINE_OFF - ENGINE_ACCOUNTS_OFF
    IN  IF accountsEnd <= 0 THEN 0
        ELSE (accountsEnd + ACCOUNT_SIZE - 1) \div ACCOUNT_SIZE

maxAccountIndex(dataLen) ==
    LET accountsEnd == dataLen - ENGINE_OFF - ENGINE_ACCOUNTS_OFF
    IN  IF accountsEnd <= 0 THEN 0 ELSE accountsEnd \div ACCOUNT_SIZE

AccountFields(base) ==
    << F("kind", "kind", base + ACCT_KIND_OFF),
       F("accountId", "u64", base + ACCT_ACCOUNT_ID_OFF),
       F("capital", "u128", base + ACCT_CAPITAL_OFF),
       F("pnl", "i128", base + ACCT_PNL_OFF),
       F("reservedPnl", "u128", base + ACCT_RESERVED_PNL_OFF),
       F("warmupStartedAtSlot", "u64", base + ACCT_WARMUP_STARTED_OFF),
       F("warmupSlopePerStep", "u128", base + ACCT_WARMUP_SLOPE_OFF),
       F("positionSize", "i128", base + ACCT_POSITION_SIZE_OFF),
       F("entryPrice", "u64", base + ACCT_ENTRY_PRICE_OFF),
       F("fundingIndex", "i128", base + ACCT_FUNDING_INDEX_OFF),
       F("matcherProgram", "key", base + ACCT_MATCHER_PROGRAM_OFF),
       F("matcherContext", "key", base + ACCT_MATCHER_CONTEXT_OFF),
       F("owner", "key", base + ACCT_OWNER_OFF),
       F("feeCredits", "i128", base + ACCT_FEE_CREDITS_OFF),
       F("lastFeeSlot", "u64", base + ACCT_LAST_FEE_SLOT_OFF) >>

AccountBase(idx) == ENGINE_OFF + ENGINE_ACCOUNTS_OFF + idx * ACCOUNT_SIZE

\* parseAccount with the index check off by one (idx > maxIdx)
parseAccountOffByOne(d, idx) ==
    LET maxIdx == maxAccountIndex(d.len)
        base == AccountBase(idx)
    IN  IF idx < 0 \/ idx > maxIdx THEN Throw("index out of range", {})
        ELSE IF d.len < base + ACCOUNT_SIZE THEN Throw("too short for account", {})
        ELSE ReadStruct(d, AccountFields(base))

parseAccount(d, idx) ==
    LET maxIdx == maxAccountIndex(d.len)
        base == AccountBase(idx)
    IN  IF idx < 0 \/ idx >= maxIdx THEN Throw("index out of range", {})
        ELSE IF d.len < base + ACCOUNT_SIZE THEN Throw("too short for account", {})
        ELSE ReadStruct(d, AccountFields(base))

\* parseAllAccounts without the capacity filter
FilterNothing(indices, maxIdx) == indices

\* indices.filter(idx => idx < maxIdx)
FilterValid(indices, maxIdx) == SelectSeq(indices, LAMBDA idx : idx < maxIdx)

\* validIndices.map(idx => ({idx, account: parseAccount(data, idx)})): the first
\* parseAccount that throws ends the map with its error
MapAccounts(d, validIndices) ==
    LET outs == [k \in 1..Len(validIndices) |-> parseAccount(d, validIndices[k])]
        bad == {k \in 1..Len(validIndices) : outs[k].tag = "throw"}
        stop == IF bad = {} THEN Len(validIndices) ELSE SetMin(bad)
        rd == UNION {outs[k].reads : k \in 1..stop}
    IN  IF bad # {} THEN Throw(outs[stop].err, rd)
        ELSE Ok([k \in 1..Len(validIndices) |->
                    [idx |-> validIndices[k], account |-> outs[k].val]], rd)

parseAllAccounts(d) ==
    LET indices == parseUsedIndices(d)
    IN  IF indices.tag = "throw" THEN indices
        ELSE LET maxIdx == maxAccountIndex(d.len)
                 validIndices == FilterValid(indices.val, maxIdx)
                 m == MapAccounts(d, validIndices)
             IN  [m EXCEPT !.reads = indices.reads \cup m.reads]

---------------------------------------------------------------------------
(* The buffers the decoder is run on *)

AccountsStart == ENGINE_OFF + ENGINE_ACCOUNTS_OFF

FullLen == AccountsStart + MAX_ACCOUNTS * ACCOUNT_SIZE

\* lengths around every length check of the decoder, lengths that cut the
\* account array at and inside a record, and the full slab
LenInputs ==
    {0, 7, 8, 55, 56, 63, 64, 153, 154, 191, 192, 199, 200, 202, 203, 399, 400,
     BitmapBase + 7, BitmapBase + 8, BitmapBase + 511, BitmapBase + 512,
     AccountsStart - 1, FullLen}
        \cup {AccountsStart + k * ACCOUNT_SIZE + e :
                 k \in 0..MaxRecords, e \in {0, 1, ACCOUNT_SIZE - 1}}

\* a signature that differs from MAGIC in its most significant byte only
BAD_MAGIC == <<84, 65, 76, 79, 67, 82, 69, 81>>

\* version 258 has two nonzero bytes
HeaderInputs == {<<MAGIC, 1>>, <<MAGIC, 258>>, <<BAD_MAGIC, 1>>}

\* slot indices whose bitmap bit may be set: both ends of a byte, of a word
\* and of the bitmap, and the slots around the cut of the account array
BitInputs == {0, 13, 63, 64, 4095, MaxRecords - 1, MaxRecords}

UsedInputs == {S \in SUBSET BitInputs : Cardinality(S) <= MaxSetBits}

IdxInputs == BitInputs \cup {-1, 1, 65, 4096}

\* byte k of the bitmap, given the set of used slots
BitmapByte(used, k) ==
    LET bitsIn == {b \in 0..7 : (8 * k + b) \in used}
        RECURSIVE Sum(_)
        Sum(S) == IF S = {} THEN 0
                  ELSE LET b == CHOOSE x \in S : TRUE IN 2 ^ b + Sum(S \ {b})
    IN  Sum(bitsIn)

\* the bytes of a slab with this signature, version and set of used slots: a used
\* slot i holds kind LP when i is odd and account id (i % 255) + 1
Content(magic, version, used) ==
    LET hdr == [o \in 0..7 |-> magic[o + 1]]
                 @@ (8 :> (version % 256)) @@ (9 :> (version \div 256))
        bmOffs == {BitmapBase + (i \div 8) : i \in used}
        bm == [o \in bmOffs |-> BitmapByte(used, o - BitmapBase)]
        kinds == [o \in {AccountBase(i) + ACCT_KIND_OFF : i \in used} |->
                     ((o - AccountsStart) \div ACCOUNT_SIZE) % 2]
        ids == [o \in {AccountBase(i) + ACCT_ACCOUNT_ID_OFF : i \in used} |->
                   (((o - AccountsStart) \div ACCOUNT_SIZE) % 255) + 1]
    IN  hdr @@ bm @@ kinds @@ ids

\* a buffer of length len holding the first len bytes of the content
MakeBuf(len, content) ==
    LET keep == {o \in DOMAIN content : o < len /\ content[o] # 0}
    IN  [len |-> len, nz |-> [o \in keep |-> content[o]]]

Buffers ==
    {MakeBuf(len, Content(h[1], h[2], used)) :
        len \in LenInputs, h \in HeaderInputs, used \in UsedInputs}

---------------------------------------------------------------------------
(* The state machine: a fetched buffer and decoder calls on it *)

NoCall == [op |-> "none", args |-> <<>>]

Init ==
    /\ data \in Buffers
    /\ call = NoCall
    /\ ret = Ok(<<>>, {})

\* A decoder call is a pure function of the buffer: what it returns does not
\* depend on the calls made before it, so each call is taken from the fetched
\* buffer and the state records that one call and its outcome.
Did(op, args, out) ==
    /\ call = NoCall
    /\ call' = [op |-> op, args |-> args]
    /\ ret' = out
    /\ UNCHANGED data

ParseHeader == Did("parseHeader", <<>>, parseHeader(data))

ParseConfig == Did("parseConfig", <<>>, parseConfig(data))

ReadNonce == Did("readNonce", <<>>, readNonce(data))

ReadLastThrUpdateSlot == Did("readLastThrUpdateSlot", <<>>, readLastThrUpdateSlot(data))

ParseParams == Did("parseParams", <<>>, parseParams(data))

ParseEngine == Did("parseEngine", <<>>, parseEngine(data))

ParseUsedIndices == Did("parseUsedIndices", <<>>, parseUsedIndices(data))

IsAccountUsed == \E idx \in IdxInputs : Did("isAccountUsed", <<idx>>, isAccountUsed(data, idx))

MaxAccountIndex == Did("maxAccountIndex", <<data.len>>, Ok(maxAccountIndex(data.len), {}))

ParseAccount == \E idx \in IdxInputs : Did("parseAccount", <<idx>>, parseAccount(data, idx))

ParseAllAccounts == Did("parseAllAccounts", <<>>, parseAllAccounts(data))

Next ==
    \/ ParseHeader
    \/ ParseConfig
    \/ ReadNonce
    \/ ReadLastThrUpdateSlot
    \/ ParseParams
    \/ ParseEngine
    \/ ParseUsedIndices
    \/ IsAccountUsed
    \/ MaxAccountIndex
    \/ ParseAccount
    \/ ParseAllAccounts

Spec == Init /\ [][Next]_vars

---------------------------------------------------------------------------
(* Properties of the decoder *)

\* the first 8 bytes of the buffer are the signature constant
SignatureOk(d) == d.len >= 8 /\ \A i \in 1..8 : ByteAt(d, i - 1) = MAGIC[i]

\* the u32 the 4 bytes at offset 8 hold
VersionBytes(d) ==
    ByteAt(d, 8) + 256 * (ByteAt(d, 9) + 256 * (ByteAt(d, 10) + 256 * ByteAt(d, 11)))

\* the decoder's own errors for a buffer shorter than the section being read
TooShortErrors ==
    {"too short for header", "too short for config", "too short for nonce",
     "too short for lastThrUpdateSlot", "too short for RiskParams",
     "too short for RiskEngine", "too short for bitmap", "too short for account"}

\* the operations that interpret fields past the header
PastHeaderOps ==
    {"parseConfig", "parseParams", "parseEngine", "parseUsedIndices",
     "isAccountUsed", "parseAccount", "parseAllAccounts"}

\* the outcome of the call c on the buffer d
Apply(c, d) ==
    CASE c.op = "parseHeader" -> parseHeader(d)
      [] c.op = "parseConfig" -> parseConfig(d)
      [] c.op = "readNonce" -> readNonce(d)
      [] c.op = "readLastThrUpdateSlot" -> readLastThrUpdateSlot(d)
      [] c.op = "parseParams" -> parseParams(d)
      [] c.op = "parseEngine" -> parseEngine(d)
      [] c.op = "parseUsedIndices" -> parseUsedIndices(d)
      [] c.op = "isAccountUsed" -> isAccountUsed(d, c.args[1])
      [] c.op = "maxAccountIndex" -> Ok(maxAccountIndex(c.args[1]), {})
      [] c.op = "parseAccount" -> parseAccount(d, c.args[1])
      [] c.op = "parseAllAccounts" -> parseAllAccounts(d)

\* the buffer d with the u32 v written at offset 8
WithVersion(d, v) ==
    LET bytes == (8 :> (v % 256)) @@ (9 :> ((v \div 256) % 256))
                   @@ (10 :> ((v \div 65536) % 256)) @@ (11 :> (v \div 16777216))
        content == bytes @@ d.nz
    IN  MakeBuf(d.len, content)

\* version values offered to the decoder: no single offset table is the layout
\* of all of them
VersionProbes == {0, 1, 2, 3, 258, 65535}

\* C1: parseHeader on a buffer shorter than 64 bytes throws the too-short error
\* without reading a byte; on a longer buffer whose first 8 bytes are not the
\* signature it throws the bad-signature error; otherwise it returns a header
\* whose version is the u32 at offset 8, whatever its value.
C1_ParseHeaderContract ==
    call.op = "parseHeader" =>
        IF data.len < 64
        THEN ret = Throw("too short for header", {})
        ELSE IF ~SignatureOk(data)
        THEN ret.tag = "throw" /\ ret.err = "invalid magic"
        ELSE ret.tag = "ok" /\ ret.val.version = VersionBytes(data)

\* parseHeader returned a header whose version is 258
C1_Witness ==
    /\ call.op = "parseHeader"
    /\ ret.tag = "ok"
    /\ ret.val.version = 258
    /\ SignatureOk(data)

\* C2: on a buffer whose signature is not the constant, every operation that
\* interprets fields past the header rejects the buffer (it throws, or at least
\* it interprets no byte of it).
C2_BadSignatureRejected ==
    (call.op \in PastHeaderOps /\ ~SignatureOk(data)) =>
        (ret.tag = "throw" \/ ret.reads = {})

\* C3: the decoder refuses a version it does not recognize: whenever an operation
\* past the header interprets bytes of a buffer with a valid signature, there is a
\* version value for which the same call on the same bytes is refused.
C3_UnrecognizedVersionRefused ==
    (/\ call.op \in PastHeaderOps
     /\ SignatureOk(data)
     /\ ret.tag = "ok"
     /\ ret.reads # {}) =>
        \E v \in VersionProbes : Apply(call, WithVersion(data, v)).tag = "throw"

\* the byte ranges parseConfig reads: four 32-byte identities from offset 64, the
\* 8-byte max staleness, the 2-byte confidence filter, the 1-byte bump
ConfigBlockRanges ==
    {<<64, 32>>, <<96, 32>>, <<128, 32>>, <<160, 32>>, <<192, 8>>, <<200, 2>>, <<202, 1>>}

\* C4: parseConfig either throws its too-short error or every byte of the
\* configuration block it reads lies inside the buffer.
C4_ConfigLengthCheckCoversBlock ==
    call.op = "parseConfig" =>
        \/ ret = Throw("too short for config", {})
        \/ /\ ret.tag = "ok"
           /\ \A r \in ConfigBlockRanges : r[1] + r[2] <= data.len

\* C5: parseParams, parseEngine, parseUsedIndices, isAccountUsed (index in
\* [0, 4096)), readNonce and readLastThrUpdateSlot either return with every read
\* inside the buffer or throw the decoder's own too-short error.
C5_TooShortIsTypedError ==
    (/\ call.op \in {"parseParams", "parseEngine", "parseUsedIndices",
                     "isAccountUsed", "readNonce", "readLastThrUpdateSlot"}
     /\ (call.op = "isAccountUsed" => call.args[1] \in 0..4095)) =>
        \/ /\ ret.tag = "ok"
           /\ \A r \in ret.reads : r[1] >= 0 /\ r[1] + r[2] <= data.len
        \/ /\ ret.tag = "throw"
           /\ ret.err \in TooShortErrors

\* the buffer holds the whole 64-word bitmap
HoldsBitmap(d) == d.len >= 208 + 70032 + 64 * 8

\* bit b of bitmap word w, read off the bytes: word w is the 8 bytes at
\* 70240 + 8w, least significant byte first
WordBit(d, w, b) == (ByteAt(d, 70240 + 8 * w + (b \div 8)) \div (2 ^ (b % 8))) % 2

\* { 64w + b : bit b of word w is set }; a word with no nonzero byte has no set bit
SetBits(d) ==
    LET words == {(o - 70240) \div 8 : o \in {x \in DOMAIN d.nz : x >= 70240 /\ x < 70752}}
    IN  {i \in {64 * w + b : w \in words, b \in 0..63} :
            WordBit(d, i \div 64, i % 64) = 1}

SeqRange(q) == {q[k] : k \in 1..Len(q)}

StrictlyAscending(q) == \A k \in 1..(Len(q) - 1) : q[k] < q[k + 1]

\* C6: on a buffer holding the full bitmap parseUsedIndices returns the indices
\* 64w + b of the set bits, each once, in strictly ascending order.
C6_UsedIndicesAreTheSetBits ==
    (call.op = "parseUsedIndices" /\ HoldsBitmap(data)) =>
        /\ ret.tag = "ok"
        /\ SeqRange(ret.val) = SetBits(data)
        /\ StrictlyAscending(ret.val)

\* parseUsedIndices returned bits of two different words, one of them the last
\* bit of a word
C6_Witness ==
    /\ call.op = "parseUsedIndices"
    /\ ret.tag = "ok"
    /\ Len(ret.val) >= 2
    /\ ret.val[1] = 63
    /\ ret.val[Len(ret.val)] >= 64

\* C7: on a buffer holding the full bitmap isAccountUsed(i) is true exactly when
\* i is among parseUsedIndices, for i in [0, 4096); outside that range it is false
\* and i is not among parseUsedIndices.
C7_IsUsedAgreesWithUsedIndices ==
    (call.op = "isAccountUsed" /\ HoldsBitmap(data)) =>
        LET i == call.args[1]
            used == parseUsedIndices(data)
        IN  /\ ret.tag = "ok"
            /\ used.tag = "ok"
            /\ (i >= 0 /\ i < 4096) => (ret.val <=> i \in SeqRange(used.val))
            /\ (i < 0 \/ i >= 4096) => (ret.val = FALSE /\ i \notin SeqRange(used.val))

\* isAccountUsed answered true for slot 13 (bit 5 of the second byte of word 0)
C7_Witness ==
    /\ call.op = "isAccountUsed"
    /\ call.args[1] = 13
    /\ ret.tag = "ok"
    /\ ret.val = TRUE

\* C8: maxAccountIndex(L) = max(0, floor((L - 78976) / 272)): it is 0 below one
\* whole record, and otherwise the r with 78976 + 272r <= L < 78976 + 272(r + 1).
C8_MaxAccountIndexFloors ==
    call.op = "maxAccountIndex" =>
        LET L == call.args[1]
            r == ret.val
        IN  /\ ret.tag = "ok"
            /\ r >= 0
            /\ L < 78976 + 272 => r = 0
            /\ L >= 78976 => (78976 + 272 * r <= L /\ L < 78976 + 272 * (r + 1))

\* maxAccountIndex on a length that ends inside the second record
C8_Witness ==
    /\ call.op = "maxAccountIndex"
    /\ call.args[1] = 78976 + 272 + 271
    /\ ret.val = 1

\* C9: parseAccount throws index-out-of-range for idx < 0 and for every idx whose
\* record does not lie whole inside the buffer; every other idx is decoded, reading
\* only inside its record, and the too-short error never happens.
C9_ParseAccountIndexCheck ==
    call.op = "parseAccount" =>
        LET idx == call.args[1]
            start == 78976 + 272 * idx
        IN  IF idx < 0 \/ start + 272 > data.len
            THEN ret = Throw("index out of range", {})
            ELSE /\ ret.tag = "ok"
                 /\ \A r \in ret.reads : r[1] >= start /\ r[1] + r[2] <= start + 272

\* parseAccount refused slot 1 of a buffer that ends inside record 1
C9_Witness ==
    /\ call.op = "parseAccount"
    /\ call.args[1] = 1
    /\ data.len = 78976 + 272 + 271
    /\ ret.tag = "throw"
    /\ ret.err = "index out of range"

\* C10: on a buffer holding the full bitmap parseAllAccounts returns one entry per
\* used index whose record fits the buffer, in ascending index order, each with the
\* account decoded from that record; used indices beyond the capacity are left out.
C10_AllAccountsFiltersToCapacity ==
    (call.op = "parseAllAccounts" /\ HoldsBitmap(data)) =>
        /\ ret.tag = "ok"
        /\ LET idxs == [k \in 1..Len(ret.val) |-> ret.val[k].idx]
           IN  /\ SeqRange(idxs) = {i \in SetBits(data) : 78976 + 272 * (i + 1) <= data.len}
               /\ StrictlyAscending(idxs)
               /\ \A k \in 1..Len(ret.val) :
                     LET rec == 78976 + 272 * ret.val[k].idx
                     IN  /\ ret.val[k].account.accountId[1] = ByteAt(data, rec + 8)
                         /\ ret.val[k].account.kind =
                                (IF ByteAt(data, rec) = 1 THEN "LP" ELSE "User")

\* parseAllAccounts returned an entry while a set bit lies beyond the capacity
C10_Witness ==
    /\ call.op = "parseAllAccounts"
    /\ ret.tag = "ok"
    /\ Len(ret.val) >= 1
    /\ Cardinality(SetBits(data)) > Len(ret.val)

---------------------------------------------------------------------------
(* 128-bit fields: the two-word composition of readU128LE and readI128LE *)

\* 64-bit words written into the 128-bit fields of record 0: zero, small values,
\* 64 (as a high word: 2^70), all ones, the top bit alone, the largest positive
WordInputs ==
    { <<0, 0, 0, 0, 0, 0, 0, 0>>, <<5, 0, 0, 0, 0, 0, 0, 0>>,
      <<64, 0, 0, 0, 0, 0, 0, 0>>, <<1, 2, 3, 4, 5, 6, 7, 8>>,
      <<255, 255, 255, 255, 255, 255, 255, 255>>, <<0, 0, 0, 0, 0, 0, 0, 128>>,
      <<255, 255, 255, 255, 255, 255, 255, 127>>, <<0, 0, 0, 0, 0, 0, 1, 0>> }

\* the bytes of a slab whose record 0 holds the words lo, hi in capital (u128)
\* and in pnl (i128)
WideContent(lo, hi) ==
    LET at(base) == [o \in base..(base + 15) |->
                        IF o < base + 8 THEN lo[o - base + 1] ELSE hi[o - base - 7]]
    IN  Content(MAGIC, 1, {0}) @@ at(AccountBase(0) + ACCT_CAPITAL_OFF)
                               @@ at(AccountBase(0) + ACCT_PNL_OFF)

WideBuffers ==
    {MakeBuf(AccountBase(1), WideContent(lo, hi)) : lo \in WordInputs, hi \in WordInputs}

InitWide ==
    /\ data \in WideBuffers
    /\ call = NoCall
    /\ ret = Ok(<<>>, {})

NextWide == ParseAccount \/ ParseAllAccounts

SpecWide == InitWide /\ [][NextWide]_vars

\* the word of 8 bytes written at off
WordAt(d, off) == [i \in 1..8 |-> ByteAt(d, off + i - 1)]

\* x * 256, and x * 2^64 as eight of them
Times256(x) == [lim |-> <<0>> \o x.lim, neg |-> x.neg]

Times2p64(x) == Times256(Times256(Times256(Times256(Times256(Times256(Times256(Times256(x))))))))

\* the carry into limb i of a + b
RECURSIVE CarryInto(_, _, _)
CarryInto(a, b, i) ==
    IF i = 1 THEN 0
    ELSE (LimbAt(a, i - 1) + LimbAt(b, i - 1) + CarryInto(a, b, i - 1)) \div 256

\* a + b, with one limb more than the longer operand so that the sign fits
BigSum(a, b) ==
    LET n == (IF Len(a.lim) > Len(b.lim) THEN Len(a.lim) ELSE Len(b.lim)) + 1
        limb(i) == (LimbAt(a, i) + LimbAt(b, i) + CarryInto(a, b, i)) % 256
    IN  [lim |-> [i \in 1..n |-> limb(i)], neg |-> limb(n) >= 128]

\* x and y are the same integer
SameValue(x, y) ==
    /\ x.neg = y.neg
    /\ \A i \in 1..(Len(x.lim) + Len(y.lim)) : LimbAt(x, i) = LimbAt(y, i)

\* the words lo and hi as integers: unsigned, and two's-complement signed
AsUnsigned(w) == [lim |-> w, neg |-> FALSE]

AsSigned(w) == [lim |-> w, neg |-> w[8] >= 128]

\* C11: a u128 field decodes to lo + 2^64 * hi and an i128 field to
\* lo + 2^64 * hi_signed, where lo and hi are the 64-bit words written at the
\* field's offset and at offset + 8 and hi_signed is hi read as a two's-complement
\* signed word; the sign of an i128 is the top bit of its last byte.
C11_TwoWordComposition ==
    (call.op = "parseAccount" /\ ret.tag = "ok") =>
        LET rec == 78976 + 272 * call.args[1]
            cap == rec + 16
            pnl == rec + 32
        IN  /\ SameValue(ret.val.capital,
                         BigSum(AsUnsigned(WordAt(data, cap)),
                                Times2p64(AsUnsigned(WordAt(data, cap + 8)))))
            /\ SameValue(ret.val.pnl,
                         BigSum(AsUnsigned(WordAt(data, pnl)),
                                Times2p64(AsSigned(WordAt(data, pnl + 8)))))
            /\ ret.val.pnl.neg = (ByteAt(data, pnl + 15) >= 128)
            /\ ~ret.val.capital.neg

\* record 0 was decoded with capital = 2^70 + 5 (low word 5, high word 64)
C11_Witness ==
    /\ call.op = "parseAccount"
    /\ ret.tag = "ok"
    /\ WordAt(data, 78976 + 16) = <<5, 0, 0, 0, 0, 0, 0, 0>>
    /\ WordAt(data, 78976 + 24) = <<64, 0, 0, 0, 0, 0, 0, 0>>
    /\ ret.val.capital.lim[1] = 5
    /\ ret.val.capital.lim[9] = 64

\* record 0 was decoded with pnl = -2^127 + 5: negative, high word's top bit set
C11_WitnessNegative ==
    /\ call.op = "parseAccount"
    /\ ret.tag = "ok"
    /\ WordAt(data, 78976 + 40) = <<0, 0, 0, 0, 0, 0, 0, 128>>
    /\ ret.val.pnl.neg

---------------------------------------------------------------------------
(* Quotes: computeQuote of commands/best-price.ts and of its variant *)

BPS_DENOM == 10000

\* BigInt products are wider than the integers of the checker, so a product that
\* is divided at once is computed as its quotient and remainder:
\* MulDivQR(a, b, c) = <<q, r>> with a * b = q * c + r and 0 <= r < c,
\* for a >= 0, b >= 0, c > 0, by doubling over the bits of b.
RECURSIVE MulDivQR(_, _, _)
MulDivQR(a, b, c) ==
    IF b = 0 THEN <<0, 0>>
    ELSE LET h == MulDivQR(a, b \div 2, c)
             wrap2 == h[2] >= c - h[2]
             q2 == 2 * h[1] + (IF wrap2 THEN 1 ELSE 0)
             r2 == IF wrap2 THEN h[2] - (c - h[2]) ELSE h[2] + h[2]
             wrapA == r2 >= c - (a % c)
         IN  IF b % 2 = 0 THEN <<q2, r2>>
             ELSE IF wrapA THEN <<q2 + (a \div c) + 1, r2 - (c - (a % c))>>
             ELSE <<q2 + (a \div c), r2 + (a % c)>>

Abs(x) == IF x < 0 THEN -x ELSE x

\* (a * b) / c on BigInts, c > 0: the quotient is truncated toward zero
BigMulDiv(a, b, c) ==
    LET q == MulDivQR(Abs(a), Abs(b), c)[1]
    IN  IF (a < 0) # (b < 0) THEN -q ELSE q

\* (a * b + c - 1n) / c on BigInts, c > 0, truncated toward zero
BigMulCeilDiv(a, b, c) ==
    LET qr == MulDivQR(Abs(a), Abs(b), c)
        negProduct == (a < 0) # (b < 0)
    IN  IF ~negProduct THEN qr[1] + (IF qr[2] > 0 THEN 1 ELSE 0)
        ELSE IF qr[1] = 0 THEN 0
        ELSE -((qr[1] - 1) + (IF qr[2] = c - 1 THEN 1 ELSE 0))

\* a trade size is <<v>>, and <<>> when the caller passes null
NoSize == <<>>

\* the impact term computed from the signed trade size, without the absolute value
ImpactBpsSigned(params, tradeSizeE6) ==
    IF tradeSizeE6 # NoSize /\ params.impactKBps > 0 /\ params.liquidityE6 > 0
    THEN BigMulDiv(tradeSizeE6[1], params.impactKBps, params.liquidityE6)
    ELSE 0

\* the impact term of both computeQuote bodies
ImpactBps(params, tradeSizeE6) ==
    IF tradeSizeE6 # NoSize /\ params.impactKBps > 0 /\ params.liquidityE6 > 0
    THEN LET absNotional == IF tradeSizeE6[1] < 0 THEN -tradeSizeE6[1] ELSE tradeSizeE6[1]
         IN  MulDivQR(absNotional, params.impactKBps, params.liquidityE6)[1]
    ELSE 0

\* the ceiling applied even when it is 0
CapEdgeZeroCaps(total, maxTotalBps) ==
    IF total > maxTotalBps THEN maxTotalBps ELSE total

\* the ceiling on the total edge; 0 means no ceiling
CapEdge(total, maxTotalBps) ==
    IF maxTotalBps > 0 /\ total > maxTotalBps THEN maxTotalBps ELSE total

\* bid and ask from the oracle price and the total edge
BidOf(oraclePrice, totalEdgeBps) ==
    BigMulDiv(oraclePrice, BPS_DENOM - totalEdgeBps, BPS_DENOM)

AskOf(oraclePrice, totalEdgeBps) ==
    BigMulCeilDiv(oraclePrice, BPS_DENOM + totalEdgeBps, BPS_DENOM)

\* computeQuote of src/commands/best-price.ts: the spread is reported without the
\* impact. Number(x) of the returned components is exact: they are below 2^53.
computeQuote(oraclePrice, params, tradeSizeE6) ==
    LET feeBps == params.feeBps
        spreadBps == params.spreadBps
        impactBps == ImpactBps(params, tradeSizeE6)
        totalEdgeBps == CapEdge(feeBps + spreadBps + impactBps, params.maxTotalBps)
    IN  [bid |-> BidOf(oraclePrice, totalEdgeBps),
         ask |-> AskOf(oraclePrice, totalEdgeBps),
         totalEdgeBps |-> totalEdgeBps,
         feeBps |-> feeBps,
         spreadBps |-> spreadBps,
         impactBps |-> impactBps]

\* the variant with the impact counted twice in the total edge
computeQuoteImpactTwice(oraclePrice, params, tradeSizeE6) ==
    LET feeBps == params.feeBps
        impactBps == ImpactBps(params, tradeSizeE6)
        spreadBps == params.spreadBps + impactBps
        totalEdgeBps == CapEdge(feeBps + spreadBps + impactBps, params.maxTotalBps)
    IN  [bid |-> BidOf(oraclePrice, totalEdgeBps),
         ask |-> AskOf(oraclePrice, totalEdgeBps),
         totalEdgeBps |-> totalEdgeBps,
         feeBps |-> feeBps,
         spreadBps |-> spreadBps,
         impactBps |-> impactBps]

\* computeQuote of the variant: the impact is added into spreadBps
computeQuoteFolded(oraclePrice, params, tradeSizeE6) ==
    LET feeBps == params.feeBps
        impactBps == ImpactBps(params, tradeSizeE6)
        spreadBps == params.spreadBps + impactBps
        totalEdgeBps == CapEdge(feeBps + spreadBps, params.maxTotalBps)
    IN  [bid |-> BidOf(oraclePrice, totalEdgeBps),
         ask |-> AskOf(oraclePrice, totalEdgeBps),
         totalEdgeBps |-> totalEdgeBps,
         feeBps |-> feeBps,
         spreadBps |-> spreadBps,
         impactBps |-> impactBps]

\* oracle answers: getChainlinkPrice returns a signed 64-bit integer
OraclePrices == {-3, 0, 1, 3, 9999, 10000000}

\* matcher parameters as fetchMatcherParams reads them (u8 kind, u32 basis
\* points, u128 liquidity), the fallback {0, 0, 50, 0, 0, 0n} among them
MatcherParamsInputs ==
    [kind : {0, 1, 2}, feeBps : {0, 5}, spreadBps : {0, 28, 50, 10001, 16000},
     maxTotalBps : {0, 33, 100}, impactKBps : {0, 100}, liquidityE6 : {0, 7, 1000}]

\* opts.size ? BigInt(opts.size) : null
TradeSizes == {NoSize, <<0>>, <<-150>>, <<150>>, <<1000>>}

QuoteInputs ==
    [oraclePrice : OraclePrices, params : MatcherParamsInputs, tradeSizeE6 : TradeSizes]

InitQuote ==
    /\ data \in QuoteInputs
    /\ call = NoCall
    /\ ret = Ok(<<>>, {})

ComputeQuote ==
    Did("computeQuote", <<>>,
        Ok(computeQuote(data.oraclePrice, data.params, data.tradeSizeE6), {}))

ComputeQuoteFolded ==
    Did("computeQuoteFolded", <<>>,
        Ok(computeQuoteFolded(data.oraclePrice, data.params, data.tradeSizeE6), {}))

NextQuote == ComputeQuote \/ ComputeQuoteFolded

SpecQuote == InitQuote /\ [][NextQuote]_vars
QuoteOps == {"computeQuote", "computeQuoteFolded"}

\* C12: the impact term is floor(|trade size| * impact_k_bps / liquidity) when a
\* trade size is supplied and impact_k_bps and liquidity are both nonzero, and 0
\* in every other case; a negative trade size gives the impact of its absolute value.
C12_ImpactTerm ==
    call.op \in QuoteOps =>
        LET size == data.tradeSizeE6
            k == data.params.impactKBps
            liq == data.params.liquidityE6
            impact == ret.val.impactBps
        IN  /\ ret.tag = "ok"
            /\ IF size # <<>> /\ k # 0 /\ liq # 0
               THEN LET notional == IF size[1] < 0 THEN 0 - size[1] ELSE size[1]
                    IN  /\ impact * liq <= notional * k
                        /\ notional * k < (impact + 1) * liq
               ELSE impact = 0

\* a negative trade size was priced with a quotient that is not exact:
\* floor(150 * 100 / 7) = 2142
C12_Witness ==
    /\ call.op = "computeQuote"
    /\ data.tradeSizeE6 = <<-150>>
    /\ data.params.impactKBps = 100
    /\ data.params.liquidityE6 = 7
    /\ ret.val.impactBps = 2142

\* a trade size was supplied with liquidity 0 and the impact came out 0
C12_WitnessZeroLiquidity ==
    /\ call.op = "computeQuote"
    /\ data.tradeSizeE6 = <<1000>>
    /\ data.params.impactKBps = 100
    /\ data.params.liquidityE6 = 0
    /\ ret.val.impactBps = 0

\* C13: total_edge_bps is min(fee + spread + impact, max_total_bps) when
\* max_total_bps > 0, and fee + spread + impact when max_total_bps = 0.
C13_Ceiling ==
    call.op \in QuoteOps =>
        LET sum == data.params.feeBps + data.params.spreadBps + ret.val.impactBps
            max == data.params.maxTotalBps
        IN  IF max > 0
            THEN /\ ret.val.totalEdgeBps = (IF sum < max THEN sum ELSE max)
                 /\ ret.val.totalEdgeBps <= max
            ELSE ret.val.totalEdgeBps = sum

\* the ceiling 33 bound an edge above it
C13_Witness ==
    /\ call.op = "computeQuote"
    /\ data.params.maxTotalBps = 33
    /\ data.params.feeBps + data.params.spreadBps + ret.val.impactBps > 33
    /\ ret.val.totalEdgeBps = 33

\* a ceiling of 0 left a positive edge as it was
C13_WitnessNoCeiling ==
    /\ call.op = "computeQuote"
    /\ data.params.maxTotalBps = 0
    /\ ret.val.totalEdgeBps = 16005

\* floor(p * k / 10000) and ceil(p * k / 10000) for p >= 0 and any k, from the
\* split p = 10000 * (p \div 10000) + (p % 10000); \div rounds down
FloorBps(p, k) == (p \div 10000) * k + (((p % 10000) * k) \div 10000)

CeilBps(p, k) == (p \div 10000) * k - ((0 - (p % 10000) * k) \div 10000)

\* C14: for an oracle price >= 0 and the total edge returned,
\* bid = floor(price * (10000 - edge) / 10000) and
\* ask = ceil(price * (10000 + edge) / 10000), also for an edge above 10000.
C14_BidFloorAskCeil ==
    (call.op \in QuoteOps /\ data.oraclePrice >= 0) =>
        /\ ret.val.bid = FloorBps(data.oraclePrice, 10000 - ret.val.totalEdgeBps)
        /\ ret.val.ask = CeilBps(data.oraclePrice, 10000 + ret.val.totalEdgeBps)

\* C15: for an oracle price >= 0, (ask - bid) * 10000 >= 2 * price * edge.
\* With price = 10000 * h + l the inequality is
\* (ask - bid - 2 * h * edge) * 10000 >= 2 * l * edge.
C15_SpreadNotUnderstated ==
    (call.op \in QuoteOps /\ data.oraclePrice >= 0) =>
        LET h == data.oraclePrice \div 10000
            l == data.oraclePrice % 10000
            edge == ret.val.totalEdgeBps
        IN  (ret.val.ask - ret.val.bid - 2 * h * edge) * 10000 >= 2 * l * edge

\* C16: for a role other than Credibility the returned spreadBps is the base
\* spread plus the impact, and when the ceiling does not bind the total edge is
\* the returned feeBps plus the returned spreadBps.
C16_ImpactFoldedIntoSpread ==
    (call.op \in QuoteOps /\ data.params.kind # 2) =>
        LET sum == data.params.feeBps + data.params.spreadBps + ret.val.impactBps
            binds == data.params.maxTotalBps > 0 /\ sum > data.params.maxTotalBps
        IN  /\ ret.val.spreadBps = data.params.spreadBps + ret.val.impactBps
            /\ ~binds => ret.val.totalEdgeBps = ret.val.feeBps + ret.val.spreadBps

---------------------------------------------------------------------------
(* The Credibility-Weighted spread. The matcher program that computes it
   (matcher/credibility, documented in its README) is not among the sources;
   its pricing is taken from the specification's overlay, in integer
   arithmetic. *)

\* clamp without the lower limit
ClampUpperOnly(x, lo, hi) == IF x > hi THEN hi ELSE x

\* clamp(x, lo, hi), lo <= hi
Clamp(x, lo, hi) == IF x < lo THEN lo ELSE IF x > hi THEN hi ELSE x

\* imbalance_k_bps * |net_inventory| / liquidity_scale; 0 when the scale is 0
ImbalanceTerm(p, inventory) ==
    IF p.liquidityE6 > 0
    THEN MulDivQR(Abs(inventory), p.imbalanceKBps, p.liquidityE6)[1]
    ELSE 0

\* the discount with the coverage taken as full whatever the balances
CoverageDiscountFull(p, insurance, oi) == p.insuranceWeightBps

\* insurance_weight_bps * min(insurance_balance / open_interest, 1.0), with the
\* coverage ratio 0 when the open interest is 0
CoverageDiscount(p, insurance, oi) ==
    IF oi > 0
    THEN MulDivQR(Min(insurance, oi), p.insuranceWeightBps, oi)[1]
    ELSE 0

\* the spread of the Credibility-Weighted role
credibilitySpread(p, inventory, insurance, oi) ==
    Clamp(p.minSpreadBps + ImbalanceTerm(p, inventory) - CoverageDiscount(p, insurance, oi),
          1, p.maxSpreadBps)

\* parameters of the role (those of the init data of
\* scripts/wire-credibility-matcher.ts among them, the liquidity scaled down),
\* net inventories, and insurance / open-interest snapshots
CredParamsInputs ==
    [minSpreadBps : {1, 50}, maxSpreadBps : {40, 500}, imbalanceKBps : {0, 100},
     liquidityE6 : {0, 1000, 1000000000}, insuranceWeightBps : {0, 50, 100}]

InventoryInputs == {0, -7, 5000, -1000000}

InsuranceInputs == {0, 1, 1000000000, 2000000000}

OpenInterestInputs == {0, 3, 2000000000}

CredInputs ==
    [params : CredParamsInputs, inventory : InventoryInputs,
     insurance : InsuranceInputs, oi : OpenInterestInputs]

InitCred ==
    /\ data \in CredInputs
    /\ call = NoCall
    /\ ret = Ok(<<>>, {})

CredibilitySpread ==
    Did("credibilitySpread", <<>>,
        Ok(credibilitySpread(data.params, data.inventory, data.insurance, data.oi), {}))

NextCred == CredibilitySpread

SpecCred == InitCred /\ [][NextCred]_vars

RECURSIVE Gcd(_, _)
Gcd(a, b) == IF b = 0 THEN a ELSE Gcd(b, a % b)

\* min_spread + imbalance term - insurance discount before the clamp, from the
\* inputs: the coverage min(insurance, oi) / oi is reduced to lowest terms first
UnclampedSpread(d) ==
    LET inv == IF d.inventory < 0 THEN 0 - d.inventory ELSE d.inventory
        imbalance == IF d.params.liquidityE6 = 0 THEN 0
                     ELSE (d.params.imbalanceKBps * inv) \div d.params.liquidityE6
        covered == IF d.insurance < d.oi THEN d.insurance ELSE d.oi
        g == Gcd(covered, d.oi)
        discount == IF d.oi = 0 THEN 0
                    ELSE (d.params.insuranceWeightBps * (covered \div g)) \div (d.oi \div g)
    IN  d.params.minSpreadBps + imbalance - discount

C17_WitnessMax ==
    /\ call.op = "credibilitySpread"
    /\ data.params.maxSpreadBps = 500
    /\ data.params.imbalanceKBps = 100
    /\ data.params.liquidityE6 = 1000
    /\ data.inventory = -1000000
    /\ ret.val = 500

\* the scenario of C18
CredScenario ==
    /\ data.params.minSpreadBps = 50
    /\ data.params.maxSpreadBps = 500
    /\ data.params.imbalanceKBps = 100
    /\ data.params.insuranceWeightBps = 50
    /\ data.insurance = 1000000000
    /\ data.oi = 2000000000
    /\ data.inventory = 0

---------------------------------------------------------------------------
(* The spread decomposition of ui/src/screens/Risk.tsx and coverageRatio of
   lib/format.ts *)

\* A JavaScript number: a quotient n / d in lowest terms with d > 0, or NaN, or
\* an infinity (n is its sign). Number(x) of a BigInt below 2^53 is exact; the
\* quotients are kept exact, which leaves unchanged whether a value is finite
\* and whether it is a whole number for the operands used here.
Num(n, d) ==
    LET g == Gcd(Abs(n), d)
    IN  [k |-> "num", n |-> n \div g, d |-> d \div g]

NaN == [k |-> "NaN", n |-> 0, d |-> 0]

Infinity(sign) == [k |-> "Infinity", n |-> sign, d |-> 0]

\* Number(a) / Number(b)
JsDiv(a, b) ==
    IF b # 0 THEN (IF b > 0 THEN Num(a, b) ELSE Num(-a, -b))
    ELSE IF a = 0 THEN NaN
    ELSE Infinity(IF a > 0 THEN 1 ELSE -1)

\* x * c and x / c for a whole c > 0
JsTimes(x, c) == IF x.k = "num" THEN Num(x.n * c, x.d) ELSE x

JsOver(x, c) ==
    IF x.k # "num" THEN x
    ELSE LET g == Gcd(Abs(x.n), c) IN Num(x.n \div g, x.d * (c \div g))

\* Math.abs(x)
JsAbs(x) ==
    CASE x.k = "num" -> Num(Abs(x.n), x.d)
      [] x.k = "Infinity" -> Infinity(1)
      [] OTHER -> NaN

\* Math.min(x, 1.0)
JsMinOne(x) ==
    CASE x.k = "NaN" -> NaN
      [] x.k = "Infinity" -> IF x.n > 0 THEN Num(1, 1) ELSE x
      [] OTHER -> IF x.n > x.d THEN Num(1, 1) ELSE x

\* x + y and x - y, over the least common denominator
JsPlus(x, y) ==
    IF x.k = "NaN" \/ y.k = "NaN" THEN NaN
    ELSE IF x.k = "Infinity" /\ y.k = "Infinity"
         THEN (IF x.n = y.n THEN x ELSE NaN)
    ELSE IF x.k = "Infinity" THEN x
    ELSE IF y.k = "Infinity" THEN y
    ELSE LET g == Gcd(x.d, y.d)
         IN  Num(x.n * (y.d \div g) + y.n * (x.d \div g), x.d * (y.d \div g))

JsNeg(x) == IF x.k = "NaN" THEN NaN ELSE [x EXCEPT !.n = -x.n]

JsMinus(x, y) == JsPlus(x, JsNeg(y))

BASE_SPREAD_BPS == 30

INSURANCE_WEIGHT_BPS == 20

IMBALANCE_WEIGHT_BPS == 10

\* the coverage ratio without the guard on the open interest
RiskCoverageRatioUnguarded(insuranceBal, oi) == JsMinOne(JsDiv(insuranceBal, oi))

\* coverageRatio of Risk(): oi > 0n ? Math.min(Number(insuranceBal) / Number(oi), 1.0) : 0
RiskCoverageRatio(insuranceBal, oi) ==
    IF oi > 0 THEN JsMinOne(JsDiv(insuranceBal, oi)) ELSE Num(0, 1)

\* the pricing values of Risk()
Risk(oi, netLp, insuranceBal) ==
    LET imbalancePct == IF oi > 0 THEN JsTimes(JsDiv(netLp, oi), 100) ELSE Num(0, 1)
        coverage == RiskCoverageRatio(insuranceBal, oi)
        insuranceDiscount == JsTimes(coverage, INSURANCE_WEIGHT_BPS)
        absImbalance == JsOver(JsAbs(imbalancePct), 100)
        imbalancePenalty == JsTimes(JsMinOne(absImbalance), IMBALANCE_WEIGHT_BPS)
    IN  [imbalancePct |-> imbalancePct,
         coverageRatio |-> coverage,
         insuranceDiscount |-> insuranceDiscount,
         imbalancePenalty |-> imbalancePenalty,
         effectiveSpread |->
             JsPlus(Num(BASE_SPREAD_BPS, 1), JsMinus(imbalancePenalty, insuranceDiscount))]

\* coverageRatio of lib/format.ts: "N/A" when oi is 0, else the percentage with
\* two decimals (toFixed(2)), kept as hundredths of a percent rounded to nearest
coverageRatio(insurance, oi) ==
    IF oi = 0 THEN [text |-> "N/A", hundredths |-> 0]
    ELSE LET qr == MulDivQR(insurance, 10000, oi)
         IN  [text |-> "%",
              hundredths |-> qr[1] + (IF qr[2] >= oi - qr[2] THEN 1 ELSE 0)]

\* engine aggregates: totalOpenInterest and insuranceFund.balance are u128,
\* netLpPos is i128
RiskInputs ==
    [oi : {0, 1, 3, 1000}, netLp : {-1000, -1, 0, 2, 1000},
     insuranceBal : {0, 1, 2, 1000}]

InitRisk ==
    /\ data \in RiskInputs
    /\ call = NoCall
    /\ ret = Ok(<<>>, {})

RenderRisk == Did("Risk", <<>>, Ok(Risk(data.oi, data.netLp, data.insuranceBal), {}))

CoverageRatio ==
    Did("coverageRatio", <<>>, Ok(coverageRatio(data.insuranceBal, data.oi), {}))

NextRisk == RenderRisk \/ CoverageRatio

SpecRisk == InitRisk /\ [][NextRisk]_vars

RiskFields ==
    {"imbalancePct", "coverageRatio", "insuranceDiscount", "imbalancePenalty",
     "effectiveSpread"}

C20_IntegerArithmeticOnly ==
    call.op = "Risk" =>
        \A f \in {"insuranceDiscount", "imbalancePenalty", "effectiveSpread"} :
            ret.val[f].k = "num" /\ ret.val[f].d = 1

---------------------------------------------------------------------------
(* The two computeQuote bodies against each other *)

\* the components two quotes are compared on
SameButSpread(q1, q2) ==
    /\ q1.bid = q2.bid
    /\ q1.ask = q2.ask
    /\ q1.totalEdgeBps = q2.totalEdgeBps
    /\ q1.feeBps = q2.feeBps
    /\ q1.impactBps = q2.impactBps

\* C28: on the same oracle price, parameters and trade size the computeQuote of
\* commands/best-price.ts and the variant that adds the impact into spreadBps
\* return the same bid, ask, totalEdgeBps, feeBps and impactBps.
C28_QuoteBodiesAgree ==
    /\ call.op = "computeQuote" =>
          SameButSpread(ret.val,
                        computeQuoteFolded(data.oraclePrice, data.params, data.tradeSizeE6))
    /\ call.op = "computeQuoteFolded" =>
          SameButSpread(ret.val,
                        computeQuote(data.oraclePrice, data.params, data.tradeSizeE6))

\* the variant priced a trade with a nonzero impact under no ceiling, and reports
\* a spread that differs from the one best-price.ts reports
C28_Witness ==
    /\ call.op = "computeQuoteFolded"
    /\ ret.val.impactBps = 2142
    /\ data.params.maxTotalBps = 0
    /\ data.oraclePrice = 9999
    /\ ret.val.spreadBps #
          computeQuote(data.oraclePrice, data.params, data.tradeSizeE6).spreadBps

---------------------------------------------------------------------------
(* Commands that decode one slot's record: slab:account and trade-cpi *)

\* slab:account: isAccountUsed first; a slot not in use is reported and nothing
\* is decoded, otherwise the record is decoded and displayed
slabAccount(d, idx) ==
    LET used == isAccountUsed(d, idx)
    IN  IF used.tag = "throw" THEN used
        ELSE IF ~used.val THEN Ok([live |-> FALSE, idx |-> idx], used.reads)
        ELSE LET account == parseAccount(d, idx)
             IN  IF account.tag = "throw"
                 THEN [account EXCEPT !.reads = used.reads \cup account.reads]
                 ELSE Ok([live |-> TRUE, idx |-> idx, owner |-> account.val.owner],
                         used.reads \cup account.reads)

\* trade-cpi: the LP owner is read from the record of lpIdx and put into the
\* instruction's accounts
tradeCpi(d, lpIdx) ==
    LET lpAccount == parseAccount(d, lpIdx)
    IN  IF lpAccount.tag = "throw" THEN lpAccount
        ELSE Ok([live |-> TRUE, idx |-> lpIdx, owner |-> lpAccount.val.owner],
                lpAccount.reads)

\* slabs with a valid header that hold the whole bitmap, cut at and inside records
CallerBuffers ==
    {MakeBuf(AccountsStart + k * ACCOUNT_SIZE + e, Content(MAGIC, 1, used)) :
        k \in 0..MaxRecords, e \in {0, 1, ACCOUNT_SIZE - 1}, used \in UsedInputs}

\* validateIndex lets through non-negative integers
CallerIdxInputs == {i \in IdxInputs : i >= 0}

InitCallers ==
    /\ data \in CallerBuffers
    /\ call = NoCall
    /\ ret = Ok(<<>>, {})

SlabAccount == \E idx \in CallerIdxInputs : Did("slab:account", <<idx>>, slabAccount(data, idx))

TradeCpi == \E idx \in CallerIdxInputs : Did("trade-cpi", <<idx>>, tradeCpi(data, idx))

NextCallers == SlabAccount \/ TradeCpi \/ ParseAllAccounts

SpecCallers == InitCallers /\ [][NextCallers]_vars

\* C24: on every path that decodes one slot's record and uses it as live data,
\* the bitmap word of the slot has been read and the slot's bit is set.
C24_BitCheckedBeforeRecordUsed ==
    /\ (call.op \in {"slab:account", "trade-cpi"} /\ ret.tag = "ok" /\ ret.val.live) =>
          LET idx == call.args[1]
          IN  /\ <<70240 + 8 * (idx \div 64), 8>> \in ret.reads
              /\ WordBit(data, idx \div 64, idx % 64) = 1
    /\ (call.op = "parseAllAccounts" /\ ret.tag = "ok") =>
          \A k \in 1..Len(ret.val) :
              WordBit(data, ret.val[k].idx \div 64, ret.val[k].idx % 64) = 1


\* ---------------------------------------------------------------------------
\* best-price: the scan over the LP venues of a slab
\* (src/commands/best-price.ts and its variant in unnamed/part_005)
\* ---------------------------------------------------------------------------

CTX_BASE == 64

\* 0x5045_5243_4d41_5443n as readBigUInt64LE returns it
PERCMATC_MAGIC == <<67, 84, 65, 77, 67, 82, 69, 80>>

FALLBACK_LABEL == "unknown (fallback 50bps)"

\* matcher parameters are <<p>>, and <<>> when fetchMatcherParams returns null
NoParams == <<>>

\* lo + (hi << 64n) of the two words of liquidity_e6; every context blob used
\* here keeps the value in the low three bytes
WordsToInt(lo, hi) == lo[1] + 256 * lo[2] + 65536 * lo[3]

\* fetchMatcherParams on the outcome of getAccountInfo: a thrown fetch is caught
\* and gives null, as do a missing account, a short blob and a wrong signature
fetchMatcherParams(info) ==
    IF info.k = "error" THEN NoParams
    ELSE IF info.k = "absent" \/ info.data.len < CTX_BASE + 80 THEN NoParams
    ELSE IF readBigUInt64LE(info.data, CTX_BASE) # PERCMATC_MAGIC THEN NoParams
    ELSE << [kind |-> readUInt8(info.data, CTX_BASE + 12),
             feeBps |-> readUInt32LE(info.data, CTX_BASE + 48),
             spreadBps |-> readUInt32LE(info.data, CTX_BASE + 52),
             maxTotalBps |-> readUInt32LE(info.data, CTX_BASE + 56),
             impactKBps |-> readUInt32LE(info.data, CTX_BASE + 60),
             liquidityE6 |-> WordsToInt(readBigUInt64LE(info.data, CTX_BASE + 64),
                                        readBigUInt64LE(info.data, CTX_BASE + 72))] >>

\* kindLabel; the variant also names kind 2
kindLabel(kind, folded) ==
    IF kind = 0 THEN "passive"
    ELSE IF kind = 1 THEN "vAMM"
    ELSE IF kind = 2 /\ folded THEN "credibility"
    ELSE "custom"

\* a default ten times as wide
fallbackParamsWide ==
    [kind |-> 0, feeBps |-> 0, spreadBps |-> 500, maxTotalBps |-> 0,
     impactKBps |-> 0, liquidityE6 |-> 0]

\* the parameters assumed for an LP whose context gave none
fallbackParams ==
    [kind |-> 0, feeBps |-> 0, spreadBps |-> 50, maxTotalBps |-> 0,
     impactKBps |-> 0, liquidityE6 |-> 0]

\* PublicKey.equals(PublicKey.default)
IsDefaultKey(key) == \A i \in DOMAIN key : key[i] = 0

\* account.kind === AccountKind.LP || !account.matcherProgram.equals(default)
isLp(account) == account.kind = "LP" \/ ~IsDefaultKey(account.matcherProgram)

\* the LPs among the parsed accounts, in scan order; the first parseAccount that
\* threw ends the command
LpsOf(indices, outs) ==
    IF \E k \in 1..Len(outs) : outs[k].tag = "throw"
    THEN Throw(outs[SetMin({k \in 1..Len(outs) : outs[k].tag = "throw"})].err, {})
    ELSE Ok(SelectSeq([k \in 1..Len(outs) |->
                          [idx |-> indices[k], account |-> outs[k].val]],
                      LAMBDA e : isLp(e.account)), {})

\* the loop over usedIndices: parseAccount for every index, without a capacity
\* filter and without a try
CollectLps(d, indices) ==
    LpsOf(indices, [k \in 1..Len(indices) |-> parseAccount(d, indices[k])])

\* the entry of matcherParams for one LP: null for the default context key
ParamsOf(lp, ctxs) ==
    IF IsDefaultKey(lp.account.matcherContext) THEN NoParams
    ELSE fetchMatcherParams(ctxs[lp.account.matcherContext[1]])

\* the prices of one LP: from its parameters, or from the fixed default when it
\* has none (the variant passes the default with a null size)
PriceWith(params, oraclePrice, tradeSizeE6, folded) ==
    IF params # NoParams
    THEN IF folded
         THEN computeQuoteFolded(oraclePrice, params[1], tradeSizeE6)
         ELSE computeQuote(oraclePrice, params[1], tradeSizeE6)
    ELSE IF folded
         THEN computeQuoteFolded(oraclePrice, fallbackParams, NoSize)
         ELSE computeQuote(oraclePrice, fallbackParams, tradeSizeE6)

\* the object pushed to quotes
QuoteEntry(lp, params, quote, folded) ==
    [lpIndex |-> lp.idx,
     matcherKind |-> IF params # NoParams THEN kindLabel(params[1].kind, folded)
                     ELSE FALLBACK_LABEL,
     bid |-> quote.bid, ask |-> quote.ask,
     totalEdgeBps |-> quote.totalEdgeBps, feeBps |-> quote.feeBps,
     spreadBps |-> quote.spreadBps, impactBps |-> quote.impactBps]

QuoteWith(lp, params, oraclePrice, tradeSizeE6, folded) ==
    QuoteEntry(lp, params, PriceWith(params, oraclePrice, tradeSizeE6, folded), folded)

\* the quote of one LP
QuoteOf(lp, oraclePrice, tradeSizeE6, ctxs, folded) ==
    QuoteWith(lp, ParamsOf(lp, ctxs), oraclePrice, tradeSizeE6, folded)

\* quotes.reduce((best, q) => q.ask <= best.ask ? q : best): the last minimum
RECURSIVE ReduceBuyLast(_, _, _)
ReduceBuyLast(quotes, best, i) ==
    IF i > Len(quotes) THEN best
    ELSE ReduceBuyLast(quotes, IF quotes[i].ask <= best.ask THEN quotes[i] ELSE best,
                       i + 1)

\* quotes.reduce((best, q) => q.ask < best.ask ? q : best)
RECURSIVE ReduceBuy(_, _, _)
ReduceBuy(quotes, best, i) ==
    IF i > Len(quotes) THEN best
    ELSE ReduceBuy(quotes, IF quotes[i].ask < best.ask THEN quotes[i] ELSE best, i + 1)

\* quotes.reduce((best, q) => q.bid > best.bid ? q : best)
RECURSIVE ReduceSell(_, _, _)
ReduceSell(quotes, best, i) ==
    IF i > Len(quotes) THEN best
    ELSE ReduceSell(quotes, IF quotes[i].bid > best.bid THEN quotes[i] ELSE best, i + 1)

\* (bestBuy.ask - bestSell.bid) * 10000n / oraclePrice: BigInt division
\* truncates toward zero and throws a RangeError on a zero divisor
EffectiveSpreadBps(ask, bid, oraclePrice) ==
    IF oraclePrice = 0 THEN Throw("Division by zero", {})
    ELSE LET q == MulDivQR(Abs(ask - bid), 10000, Abs(oraclePrice))[1]
         IN  Ok(IF (ask - bid < 0) # (oraclePrice < 0) THEN -q ELSE q, {})

\* the loop that builds one quote per LP
QuoteAll(lps, oraclePrice, tradeSizeE6, ctxs, folded) ==
    [i \in 1..Len(lps) |-> QuoteOf(lps[i], oraclePrice, tradeSizeE6, ctxs, folded)]

\* the printed result, or the RangeError of the division
Output(quotes, bestBuy, bestSell, eff) ==
    IF eff.tag = "throw" THEN eff
    ELSE Ok([error |-> "",
             quotes |-> quotes,
             bestBuy |-> [lpIndex |-> bestBuy.lpIndex,
                          matcherKind |-> bestBuy.matcherKind,
                          price |-> bestBuy.ask],
             bestSell |-> [lpIndex |-> bestSell.lpIndex,
                           matcherKind |-> bestSell.matcherKind,
                           price |-> bestSell.bid],
             effectiveSpreadBps |-> eff.val], {})

Summary(quotes, bestBuy, bestSell, oraclePrice) ==
    Output(quotes, bestBuy, bestSell,
           EffectiveSpreadBps(bestBuy.ask, bestSell.bid, oraclePrice))

\* best buy and best sell of a non-empty list of quotes
BestOf(quotes, oraclePrice) ==
    Summary(quotes, ReduceBuy(quotes, quotes[1], 2), ReduceSell(quotes, quotes[1], 2),
            oraclePrice)

\* the command after the scan for LPs
QuoteLps(lpAccounts, oraclePrice, tradeSizeE6, ctxs, folded) ==
    IF lpAccounts.tag = "throw" THEN lpAccounts
    ELSE IF Len(lpAccounts.val) = 0
    THEN Ok([error |-> "No LPs found", quotes |-> <<>>], {})
    ELSE BestOf(QuoteAll(lpAccounts.val, oraclePrice, tradeSizeE6, ctxs, folded),
                oraclePrice)

\* the scan for LPs
FindLps(d, used) == IF used.tag = "throw" THEN used ELSE CollectLps(d, used.val)

\* the action of the best-price command on a fetched slab and oracle answer
bestPrice(d, oraclePrice, tradeSizeE6, ctxs, folded) ==
    QuoteLps(FindLps(d, parseUsedIndices(d)), oraclePrice, tradeSizeE6, ctxs, folded)

\* the slots of the scanned slabs: kind byte, first byte of matcherProgram and
\* first byte of matcherContext (the byte naming the context account)
VenueBytes(i) ==
    CASE i = 0 -> <<1, 9, 1>>
      [] i = 1 -> <<0, 9, 2>>
      [] i = 2 -> <<1, 0, 0>>
      [] OTHER -> <<0, 0, 0>>

ScanSlots == {0, 1, 2, 3}

ScanContent(used) ==
    LET kinds == [o \in {AccountBase(i) + ACCT_KIND_OFF : i \in used} |->
                     VenueBytes((o - AccountsStart) \div ACCOUNT_SIZE)[1]]
        progs == [o \in {AccountBase(i) + ACCT_MATCHER_PROGRAM_OFF : i \in used} |->
                     VenueBytes((o - AccountsStart) \div ACCOUNT_SIZE)[2]]
        ctxKeys == [o \in {AccountBase(i) + ACCT_MATCHER_CONTEXT_OFF : i \in used} |->
                       VenueBytes((o - AccountsStart) \div ACCOUNT_SIZE)[3]]
    IN  kinds @@ progs @@ ctxKeys @@ Content(MAGIC, 1, used)

\* slabs with room for all four slots, and slabs cut after the second record
ScanSlabs ==
    {MakeBuf(AccountsStart + k * ACCOUNT_SIZE, ScanContent(used)) :
        k \in {2, 4}, used \in SUBSET ScanSlots}

\* a context blob of len bytes: signature, version and the parameters, laid out
\* from CTX_BASE
CtxBlob(len, magic, version, p) ==
    MakeBuf(len,
        [o \in CTX_BASE..(CTX_BASE + 7) |-> magic[o - CTX_BASE + 1]]
        @@ (CTX_BASE + 8 :> version) @@ (CTX_BASE + 12 :> p.kind)
        @@ (CTX_BASE + 48 :> p.feeBps) @@ (CTX_BASE + 52 :> p.spreadBps % 256)
        @@ (CTX_BASE + 53 :> p.spreadBps \div 256) @@ (CTX_BASE + 56 :> p.maxTotalBps)
        @@ (CTX_BASE + 60 :> p.impactKBps) @@ (CTX_BASE + 64 :> p.liquidityE6 % 256)
        @@ (CTX_BASE + 65 :> p.liquidityE6 \div 256))

PassiveParams ==
    [kind |-> 0, feeBps |-> 5, spreadBps |-> 28, maxTotalBps |-> 0,
     impactKBps |-> 0, liquidityE6 |-> 0]

VammParams ==
    [kind |-> 1, feeBps |-> 0, spreadBps |-> 100, maxTotalBps |-> 0,
     impactKBps |-> 100, liquidityE6 |-> 1000]

TiedParams ==
    [kind |-> 2, feeBps |-> 20, spreadBps |-> 30, maxTotalBps |-> 0,
     impactKBps |-> 0, liquidityE6 |-> 0]

Account(len, magic, version, p) ==
    [k |-> "account", data |-> CtxBlob(len, magic, version, p)]

\* what getAccountInfo gives for the first context account
CtxInputsA ==
    {[k |-> "absent"], [k |-> "error"],
     Account(CTX_BASE + 79, PERCMATC_MAGIC, 3, PassiveParams),
     Account(256, MAGIC, 3, PassiveParams),
     Account(256, PERCMATC_MAGIC, 3, PassiveParams),
     Account(256, PERCMATC_MAGIC, 3, VammParams),
     Account(256, PERCMATC_MAGIC, 1, VammParams)}

\* and for the second
CtxInputsB ==
    {[k |-> "absent"],
     Account(CTX_BASE + 80, PERCMATC_MAGIC, 3, TiedParams),
     Account(256, PERCMATC_MAGIC, 4, PassiveParams)}

ScanOraclePrices == {-1000000, 0, 1, 9999, 1000000}

ScanInputs ==
    {[slab |-> s, oraclePrice |-> o, tradeSizeE6 |-> t, ctxs |-> <<a, b>>] :
        s \in ScanSlabs, o \in ScanOraclePrices, t \in {NoSize, <<150>>},
        a \in CtxInputsA, b \in CtxInputsB}

InitScan == data \in ScanInputs /\ call = NoCall /\ ret = NoCall

BestPrice ==
    Did("best-price", <<>>,
        bestPrice(data.slab, data.oraclePrice, data.tradeSizeE6, data.ctxs, FALSE))

BestPriceFolded ==
    Did("best-price-folded", <<>>,
        bestPrice(data.slab, data.oraclePrice, data.tradeSizeE6, data.ctxs, TRUE))

NextScan == BestPrice \/ BestPriceFolded

SpecScan == InitScan /\ [][NextScan]_vars


\* ---------------------------------------------------------------------------
\* Properties of the best-price scan, read off the bytes of the inputs
\* ---------------------------------------------------------------------------

ScanOps == {"best-price", "best-price-folded"}

\* the command printed quotes
Quoted == call.op \in ScanOps /\ ret.tag = "ok" /\ ret.val.error = ""

\* slot i of the slab is an LP: kind byte 1, or a nonzero byte in the 32 bytes of
\* matcherProgram at 144 of the record at 78976 + 272 i
VenueAt(d, i) ==
    \/ ByteAt(d, 78976 + 272 * i) = 1
    \/ \E o \in 144..175 : ByteAt(d, 78976 + 272 * i + o) # 0

\* the set bits of the bitmap whose slot is an LP
Venues(d) == {i \in SetBits(d) : VenueAt(d, i)}

\* the context of slot i has no usable parameters: the key at 176 of the record
\* is all zero, or the account is missing, not fetched, shorter than 144 bytes,
\* or does not carry the signature at byte 64
ContextUnreadable(d, ctxs, i) ==
    \/ \A o \in 176..207 : ByteAt(d, 78976 + 272 * i + o) = 0
    \/ LET info == ctxs[ByteAt(d, 78976 + 272 * i + 176)]
       IN  \/ info.k # "account"
           \/ info.data.len < 144
           \/ \E b \in 0..7 : ByteAt(info.data, 64 + b) # PERCMATC_MAGIC[b + 1]

QuoteFor(i) == CHOOSE q \in SeqRange(ret.val.quotes) : q.lpIndex = i

\* C21: every LP found yields exactly one quote; an LP whose context is absent,
\* too short, wrongly signed or unreadable is priced with fee 0, spread 50, no
\* impact, total edge 50 and labelled "unknown (fallback 50bps)", no other LP
\* carries that label, and the best-buy and best-sell entries carry the label of
\* the quote they select.
C21_FallbackQuoteLabelled ==
    Quoted =>
        LET q == ret.val.quotes
        IN  /\ StrictlyAscending([k \in 1..Len(q) |-> q[k].lpIndex])
            /\ {q[k].lpIndex : k \in 1..Len(q)} = Venues(data.slab)
            /\ \A k \in 1..Len(q) :
                  IF ContextUnreadable(data.slab, data.ctxs, q[k].lpIndex)
                  THEN /\ q[k].matcherKind = "unknown (fallback 50bps)"
                       /\ q[k].feeBps = 0 /\ q[k].spreadBps = 50
                       /\ q[k].impactBps = 0 /\ q[k].totalEdgeBps = 50
                  ELSE q[k].matcherKind # "unknown (fallback 50bps)"
            /\ ret.val.bestBuy.matcherKind = QuoteFor(ret.val.bestBuy.lpIndex).matcherKind
            /\ ret.val.bestSell.matcherKind = QuoteFor(ret.val.bestSell.lpIndex).matcherKind

\* a fallback venue is the best buy although a venue with real parameters and a
\* trade size is quoted beside it
C21_Witness ==
    /\ Quoted
    /\ call.op = "best-price"
    /\ Len(ret.val.quotes) = 3
    /\ ret.val.bestBuy.matcherKind = "unknown (fallback 50bps)"
    /\ ret.val.bestBuy.lpIndex = 1
    /\ ret.val.quotes[1].matcherKind = "vAMM"
    /\ ret.val.quotes[1].impactBps = 15
    /\ data.oraclePrice = 9999

\* C22: an LP whose context blob carries the signature but a version below the
\* layout the reader assumes (3) is priced by the fallback default.
C22_UnsupportedVersionFallsBack ==
    Quoted =>
        \A k \in 1..Len(ret.val.quotes) :
            LET i == ret.val.quotes[k].lpIndex
                info == data.ctxs[ByteAt(data.slab, 78976 + 272 * i + 176)]
            IN  (/\ ~ContextUnreadable(data.slab, data.ctxs, i)
                 /\ ByteAt(info.data, 72) + 256 * ByteAt(info.data, 73) < 3
                 /\ ByteAt(info.data, 74) = 0 /\ ByteAt(info.data, 75) = 0)
                    => ret.val.quotes[k].matcherKind = "unknown (fallback 50bps)"

MinAsk == CHOOSE a \in {q.ask : q \in SeqRange(ret.val.quotes)} :
              \A q \in SeqRange(ret.val.quotes) : a <= q.ask

MaxBid == CHOOSE b \in {q.bid : q \in SeqRange(ret.val.quotes)} :
              \A q \in SeqRange(ret.val.quotes) : b >= q.bid

\* C23: best buy is the lowest-slot quote with the minimum ask, best sell the
\* lowest-slot quote with the maximum bid, and the effective spread is
\* (best ask - best bid) * 10000 / oracle price, truncated toward zero.
C23_BestOfAllVenues ==
    Quoted =>
        LET buy == ret.val.bestBuy
            sell == ret.val.bestSell
            num == (buy.price - sell.price) * 10000
            eff == ret.val.effectiveSpreadBps
            p == data.oraclePrice
        IN  /\ buy.price = MinAsk
            /\ QuoteFor(buy.lpIndex).ask = MinAsk
            /\ \A q \in SeqRange(ret.val.quotes) : q.ask = MinAsk => buy.lpIndex <= q.lpIndex
            /\ sell.price = MaxBid
            /\ QuoteFor(sell.lpIndex).bid = MaxBid
            /\ \A q \in SeqRange(ret.val.quotes) : q.bid = MaxBid => sell.lpIndex <= q.lpIndex
            /\ Abs(eff) * Abs(p) <= Abs(num)
            /\ Abs(num) < (Abs(eff) + 1) * Abs(p)
            /\ (eff # 0 => ((eff < 0) <=> ((num < 0) # (p < 0))))

\* three venues, the first two tied on the best ask and the best bid, and an
\* effective spread with a remainder dropped
C23_Witness ==
    /\ Quoted
    /\ Len(ret.val.quotes) = 3
    /\ ret.val.quotes[1].ask = ret.val.quotes[2].ask
    /\ ret.val.quotes[3].ask > ret.val.quotes[1].ask
    /\ ret.val.bestBuy.lpIndex = 0
    /\ ret.val.bestSell.lpIndex = 0
    /\ data.oraclePrice = 9999
    /\ ((ret.val.bestBuy.price - ret.val.bestSell.price) * 10000) % 9999 # 0

\* C25: on a slab that holds the whole bitmap but fewer records than a set bit
\* asks for, the scan leaves the slot out and quotes the LPs that fit.
C25_TruncatedSlabStillQuoted ==
    (/\ call.op \in ScanOps
     /\ HoldsBitmap(data.slab)
     /\ data.oraclePrice > 0
     /\ \E i \in SetBits(data.slab) : 78976 + 272 * (i + 1) > data.slab.len) =>
        /\ ret.tag = "ok"
        /\ LET fit == {i \in Venues(data.slab) : 78976 + 272 * (i + 1) <= data.slab.len}
           IN  IF fit = {} THEN ret.val.error = "No LPs found"
               ELSE {q.lpIndex : q \in SeqRange(ret.val.quotes)} = fit

\* C30: for every oracle answer the command never divides by a zero price, and
\* when it prints quotes the best ask is at least the best bid and the effective
\* spread is not negative.
C30_OraclePriceGuarded ==
    call.op \in ScanOps =>
        /\ (ret.tag = "throw" => ret.err # "Division by zero")
        /\ (Quoted => /\ ret.val.bestBuy.price >= ret.val.bestSell.price
                      /\ ret.val.effectiveSpreadBps >= 0)


\* ---------------------------------------------------------------------------
\* useSlab: polling a slab into React state (ui/src/hooks/use-slab.ts)
\*
\* data holds what lies outside the returned value: the hook's arguments, the
\* fetches in flight, the ref with the history and the clock; ret is the value
\* the hook returns, { data, error, loading, history }; call is the last event.
\* ---------------------------------------------------------------------------

\* the number of fetches started in one session
MaxPolls == 3

\* a value of type T | null is <<>> for null and <<v>> for v
Null == <<>>

SlabAddresses == {"slabA", "slabB"}

\* what the RPC node may answer to a fetch: a failure, or the bytes of the slab
PollRaws ==
    {MakeBuf(AccountsStart + 2 * ACCOUNT_SIZE, Content(MAGIC, 1, {0})),
     MakeBuf(AccountsStart + 2 * ACCOUNT_SIZE, Content(MAGIC, 1, {0, 1})),
     MakeBuf(AccountsStart + 2 * ACCOUNT_SIZE, Content(BAD_MAGIC, 1, {0})),
     MakeBuf(AccountsStart - 1, Content(MAGIC, 1, {0}))}

PollOutcomes == {[k |-> "error"]} \cup {[k |-> "raw", raw |-> b] : b \in PollRaws}

\* the results of the five decoders, the first failure ending the try block
FirstFailure(header, config, engine, params, accounts) ==
    IF header.tag = "throw" THEN Throw(header.err, {})
    ELSE IF config.tag = "throw" THEN Throw(config.err, {})
    ELSE IF engine.tag = "throw" THEN Throw(engine.err, {})
    ELSE IF params.tag = "throw" THEN Throw(params.err, {})
    ELSE IF accounts.tag = "throw" THEN Throw(accounts.err, {})
    ELSE Ok([header |-> header.val, config |-> config.val,
             engine |-> engine.val, params |-> params.val,
             accounts |-> accounts.val], {})

\* the decoders of the try block of fetch, in order
DecodeAll(raw) ==
    FirstFailure(parseHeader(raw), parseConfig(raw), parseEngine(raw),
                 parseParams(raw), parseAllAccounts(raw))

\* DecodeAll of each answer, computed once
Decoded == [raw \in PollRaws |-> DecodeAll(raw)]

\* the snapshot literal. The field fetch records which fetch gave the snapshot;
\* it is not a field of the program's snapshot.
Snapshot(f, d, now) ==
    IF d.tag = "throw" THEN d
    ELSE Ok([header |-> d.val.header, config |-> d.val.config,
             engine |-> d.val.engine, params |-> d.val.params,
             accounts |-> d.val.accounts, fetchedAt |-> now,
             slot |-> d.val.engine.currentSlot, fetch |-> f], {})

\* the try block of fetch up to the snapshot: fetchSlab, the decoders and the
\* snapshot literal
MakeSnapshot(f, outcome, now) ==
    IF outcome.k = "error" THEN Throw("Slab account not found", {})
    ELSE Snapshot(f, Decoded[outcome.raw], now)

\* the end of the try block with setHistory left out
PublishDataOnly(result, historyRef, snapshot) ==
    [result EXCEPT !.data = <<snapshot>>, !.error = Null, !.loading = FALSE]

\* setData(snapshot); setError(null); setHistory([...historyRef.current,
\* snapshot]); and setLoading(false) of the finally block
Publish(result, historyRef, snapshot) ==
    [result EXCEPT !.data = <<snapshot>>, !.error = Null, !.loading = FALSE,
                   !.history = Append(historyRef, snapshot)]

\* the catch block and the finally block
Fail(result, message) == [result EXCEPT !.error = <<message>>, !.loading = FALSE]

\* mount: the initial state of useState and useRef, and the effect has called
\* fetch() once and set the interval
InitPoll ==
    /\ data \in {[address |-> a, mounted |-> TRUE,
                  inflight |-> {[seq |-> 1, address |-> a]},
                  started |-> 1, historyRef |-> <<>>, now |-> 0] :
                    a \in SlabAddresses}
    /\ call = NoCall
    /\ ret = [data |-> Null, error |-> Null, loading |-> TRUE, history |-> <<>>]

\* the interval fires: fetch() for the current address
Tick ==
    /\ data.mounted
    /\ data.started < MaxPolls
    /\ data' = [data EXCEPT
                   !.started = @ + 1,
                   !.inflight = @ \cup {[seq |-> data.started + 1,
                                         address |-> data.address]}]
    /\ call' = [op |-> "tick", args |-> <<>>]
    /\ UNCHANGED ret

\* slabAddress (or rpcUrl) changes: the cleanup clears the interval, the effect
\* runs again with the new fetch, calls it and sets a new interval; the state of
\* the hook is kept
ChangeAddress ==
    /\ data.mounted
    /\ data.started < MaxPolls
    /\ \E a \in SlabAddresses \ {data.address} :
          /\ data' = [data EXCEPT
                         !.address = a,
                         !.started = @ + 1,
                         !.inflight = @ \cup {[seq |-> data.started + 1,
                                               address |-> a]}]
          /\ call' = [op |-> "change", args |-> <<a>>]
    /\ UNCHANGED ret

\* unmount: the cleanup clears the interval
Unmount ==
    /\ data.mounted
    /\ data' = [data EXCEPT !.mounted = FALSE]
    /\ call' = [op |-> "unmount", args |-> <<>>]
    /\ UNCHANGED ret

\* the rest of fetch after the await, r being the snapshot or the failure. The
\* setters of an unmounted component change nothing; the ref is written either
\* way.
Finish(f, r) ==
    /\ call' = [op |-> "complete", args |-> <<f, r.tag>>]
    /\ data' = [data EXCEPT
                   !.inflight = @ \ {f},
                   !.now = @ + 1,
                   !.historyRef = IF r.tag = "ok" THEN Append(@, r.val) ELSE @]
    /\ ret' = IF ~data.mounted THEN ret
              ELSE IF r.tag = "ok" THEN Publish(ret, data.historyRef, r.val)
              ELSE Fail(ret, r.err)

\* a fetch in flight completes, in any order
Complete ==
    \E f \in data.inflight, outcome \in PollOutcomes :
        Finish(f, MakeSnapshot(f, outcome, data.now + 1))

NextPoll == Tick \/ ChangeAddress \/ Unmount \/ Complete

SpecPoll == InitPoll /\ [][NextPoll]_vars


Last(q) == q[Len(q)]

\* a poll completed on the mounted hook
Completed == call'.op = "complete" /\ data.mounted

\* C26: a poll that fails leaves data and history unchanged and sets error; a poll
\* that succeeds sets data to the new snapshot, appends exactly that snapshot to
\* history and clears error; so history is non-empty iff data is non-null, data is
\* the last element of history, and data never returns to null.
C26_WholeSnapshotsOnly ==
    /\ [](/\ (ret.history # <<>>) <=> (ret.data # Null)
          /\ ret.data # Null => ret.data[1] = Last(ret.history))
    /\ [][/\ (Completed /\ call'.args[2] = "throw") =>
                /\ ret'.data = ret.data
                /\ ret'.history = ret.history
                /\ ret'.error # Null
          /\ (Completed /\ call'.args[2] = "ok") =>
                /\ ret'.data # Null
                /\ ret'.data[1].fetch = call'.args[1]
                /\ ret'.history = Append(ret.history, ret'.data[1])
                /\ ret'.error = Null
          /\ ret.data # Null => ret'.data # Null]_vars

\* a failed poll after two published snapshots: the error is set, data and
\* history still hold the snapshots
C26_Witness ==
    /\ call.op = "complete"
    /\ call.args[2] = "throw"
    /\ Len(ret.history) = 2
    /\ ret.error = <<"invalid magic">>
    /\ ret.data = <<ret.history[2]>>
    /\ ret.history[1] # ret.history[2]

\* C27: history is in the order in which the fetches were started and data is
\* the snapshot of the latest-started fetch published; and a fetch for an
\* address the hook no longer polls changes neither data nor history.
C27_StartOrderKept ==
    /\ [](\A k \in 1..(Len(ret.history) - 1) :
              ret.history[k].fetch.seq < ret.history[k + 1].fetch.seq)
    /\ [][(call'.op = "complete" /\ call'.args[1].address # data.address) =>
              (ret'.data = ret.data /\ ret'.history = ret.history)]_vars


\* ---------------------------------------------------------------------------
\* useProgramTrust: who may upgrade the programs (ui/src/hooks/use-program-trust.ts)
\* ---------------------------------------------------------------------------

\* program ids that new PublicKey accepts, and one it rejects
ValidIds == {"PercProg", "PercMatch"}

\* new PublicKey(id) of a string
NewPublicKey(id) ==
    IF id \in ValidIds THEN Ok(id, {}) ELSE Throw("Invalid public key input", {})

\* the entry pushed by the catch block, claiming the program immutable
UnknownEntryOpen(id) ==
    [programId |-> id, upgradeable |-> FALSE,
     upgradeAuthority |-> [k |-> "unknown"], lastDeployedSlot |-> ZERO64]

\* the entry pushed by the catch block of the loop
UnknownEntry(id) ==
    [programId |-> id, upgradeable |-> TRUE,
     upgradeAuthority |-> [k |-> "unknown"], lastDeployedSlot |-> ZERO64]

\* fetchProgramTrust on what the two getAccountInfo calls answer: program is the
\* answer for the program id, programData the answer for the address held in
\* bytes 4..35 of the program account
fetchProgramTrust(answers, programId) ==
    IF answers.program.k = "error" THEN Throw("fetch failed", {})
    ELSE IF answers.program.k = "absent" THEN Throw("Program not found", {})
    ELSE IF answers.programData.k = "error" THEN Throw("fetch failed", {})
    ELSE IF answers.programData.k = "absent" THEN Throw("ProgramData not found", {})
    ELSE LET pdData == answers.programData.data
         IN  IF ~InBounds(pdData, 4, 8) THEN Throw(RANGE_ERROR, {})
             ELSE IF ~InBounds(pdData, 12, 1) THEN Throw(RANGE_ERROR, {})
             ELSE LET authorityTag == readUInt8(pdData, 12)
                  IN  Ok([programId |-> programId,
                          upgradeable |-> authorityTag = 1,
                          upgradeAuthority |->
                              IF authorityTag = 1
                              THEN [k |-> "key", bytes |-> subarray(pdData, 13, 45)]
                              ELSE [k |-> "null"],
                          lastDeployedSlot |-> readBigUInt64LE(pdData, 4)], {})

\* the loop of doFetch from position i: one entry per id, a failure of
\* new PublicKey or of fetchProgramTrust caught per id
RECURSIVE TrustResults(_, _, _)
TrustResults(programIds, chain, i) ==
    IF i > Len(programIds) THEN <<>>
    ELSE LET id == programIds[i]
             key == NewPublicKey(id)
             info == IF key.tag = "throw" THEN key
                     ELSE fetchProgramTrust(chain[id], key.val)
         IN  <<IF info.tag = "ok" THEN info.val ELSE UnknownEntry(id)>>
                 \o TrustResults(programIds, chain, i + 1)

\* doFetch on the initial state of the hook, with an rpcUrl that Connection
\* accepts: the value the hook returns afterwards
doFetch(programIds, chain) ==
    IF Len(programIds) = 0
    THEN [programs |-> <<>>, loading |-> FALSE, error |-> Null]
    ELSE [programs |-> TrustResults(programIds, chain, 1),
          loading |-> FALSE, error |-> Null]

\* a ProgramData account of len bytes: slot 7 at byte 4, the option tag at byte
\* 12 and an authority from byte 13
PdAccount(len, tag) ==
    [k |-> "account",
     data |-> MakeBuf(len, (4 :> 7) @@ (12 :> tag) @@ [o \in 13..44 |-> 200 + (o % 8)])]

ProgramAccount == [k |-> "account", data |-> MakeBuf(36, (0 :> 2) @@ (4 :> 9))]

\* what the node answers for one program
TrustAnswers ==
    {[program |-> [k |-> "error"], programData |-> [k |-> "absent"]],
     [program |-> [k |-> "absent"], programData |-> [k |-> "absent"]]}
    \cup {[program |-> ProgramAccount, programData |-> pd] :
             pd \in {[k |-> "error"], [k |-> "absent"],
                     PdAccount(11, 0), PdAccount(12, 0), PdAccount(13, 0),
                     PdAccount(45, 0), PdAccount(45, 1), PdAccount(45, 2),
                     PdAccount(13, 1)}}

ProgramIdInputs ==
    {<<>>, <<"PercProg">>, <<"not a key">>, <<"PercProg", "PercMatch">>,
     <<"PercMatch", "PercProg">>, <<"not a key", "PercProg">>,
     <<"PercProg", "not a key">>, <<"PercProg", "PercProg">>}

TrustInputs ==
    {[programIds |-> ids, chain |-> c] :
        ids \in ProgramIdInputs, c \in [ValidIds -> TrustAnswers]}

InitTrust == data \in TrustInputs /\ call = NoCall /\ ret = NoCall

DoFetch == Did("useProgramTrust", <<>>, Ok(doFetch(data.programIds, data.chain), {}))

NextTrust == DoFetch

SpecTrust == InitTrust /\ [][NextTrust]_vars

\* the program with this id could not be read: the id is no key, one of the two
\* accounts is missing or was not fetched, or the ProgramData account is
\* shorter than 13 bytes
TrustUnreadable(id) ==
    \/ id \notin {"PercProg", "PercMatch"}
    \/ data.chain[id].program.k # "account"
    \/ data.chain[id].programData.k # "account"
    \/ data.chain[id].programData.data.len < 13

\* C29: the result list has one entry per requested id, in request order; an
\* entry says upgradeable = false only if both accounts were fetched and byte 12
\* of the ProgramData account is not 1; a program that could not be fetched or
\* read is reported upgradeable with authority "unknown", whatever happened to
\* the other programs.
C29_TrustFailsClosed ==
    call.op = "useProgramTrust" =>
        LET programs == ret.val.programs
        IN  /\ Len(programs) = Len(data.programIds)
            /\ \A i \in 1..Len(programs) :
                  LET id == data.programIds[i]
                  IN  /\ programs[i].programId = id
                      /\ ~programs[i].upgradeable =>
                            /\ ~TrustUnreadable(id)
                            /\ ByteAt(data.chain[id].programData.data, 12) # 1
                      /\ TrustUnreadable(id) =>
                            /\ programs[i].upgradeable
                            /\ programs[i].upgradeAuthority = [k |-> "unknown"]

\* the first program cannot be read, the second is reported immutable
C29_Witness ==
    /\ call.op = "useProgramTrust"
    /\ Len(ret.val.programs) = 2
    /\ data.chain[data.programIds[1]].programData.k = "account"
    /\ data.chain[data.programIds[1]].programData.data.len = 12
    /\ ret.val.programs[1].upgradeable
    /\ ret.val.programs[1].upgradeAuthority = [k |-> "unknown"]
    /\ ~ret.val.programs[2].upgradeable
    /\ ret.val.error = Null

=============================================================================
